---------------------------- MODULE Spec2Model ----------------------------
(***************************************************************************)
(* A model of the company data collection pipeline of                      *)
(* src/data_collection/scraper.py: the per-service RateLimiter, the        *)
(* per-entity job scrape_company_data, the scheduler                       *)
(* scrape_multiple_companies and the persistence transaction               *)
(* save_company_data.                                                      *)
(*                                                                         *)
(* Three specifications share the module:                                  *)
(*   SpecRL  one RateLimiter shared by concurrent asyncio tasks;           *)
(*   Spec    scrape_multiple_companies running scrape_company_data jobs;   *)
(*   SpecDB  save_company_data called on concurrent pool connections.      *)
(***************************************************************************)
EXTENDS Integers, Sequences, FiniteSets, TLC

VARIABLES
    \* ---- RateLimiter (SpecRL)
    now,                 \* time.time(), in clock ticks
    requests_per_second, \* RateLimiter.requests_per_second
    last_request_time,   \* RateLimiter.last_request_time
    rlPc,                \* per task: "idle" | "sleeping" (inside asyncio.sleep)
    wakeAt,              \* per task: the time its asyncio.sleep is due
    callsMade,           \* per task: wait_if_needed calls started
    lastReturn,          \* history, per task: when its latest wait_if_needed returned (0: never)
    prevReturn           \* history, per task: when the one before that returned (0: never)

VARIABLES
    \* ---- external services, configuration and the database
    edgar,               \* per job: the filings feed SEC EDGAR holds for its entity
    newsapi,             \* per job: the 'articles' the news API answers for its entity
    glassdoor,           \* per job: the review elements of the reviews page of its entity
    api_key,             \* GOOGLE_NEWS_API_KEY is set
    responses,           \* the responses the services can give during the run
    store,               \* the committed rows of the four tables
    \* ---- scrape_multiple_companies and its jobs (Spec)
    companies,           \* the argument of scrape_multiple_companies
    schedPc,             \* "gather" | "returned" | "raised" | "exited" (sys.exit)
    semaphore,           \* the value of asyncio.Semaphore(3)
    jobPc,               \* per job: "queued" | "filings" | "content" | "news" | "reviews"
                         \*          | "save" | "done" | "failed" | "cancelled"
    company_data,        \* per job: the CompanyData aggregate of scrape_company_data
    filings,             \* per job: the local list filings
    idx,                 \* per job: position of the loop over filings[:5]
    results,             \* per job: its entry of the list asyncio.gather returns
    successful_results,  \* the list scrape_multiple_companies returns
    errorLog,            \* logger.error lines of scrape_multiple_companies: <<name, error>>
    running,             \* ScraperRunner.running (run_scraper.py)
    metrics,             \* MonitoringSystem.metrics
    invoked,             \* history, per job: the adapters called so far
    fetched,             \* history, per job: the records its adapters returned
    saveError,           \* history, per job: its save_company_data raised
    requested,           \* history, per job and adapter: the requests sent
    failedCalls,         \* history, per job and adapter: the requests that failed
    trace,               \* history, per job: what its task did, in order
    outOfOrder,          \* history: a job completed while one submitted before it still ran
    \* ---- save_company_data on pool connections (SpecDB)
    tx,                  \* per connection: its transaction (the aggregate, statements done)
    savesStarted,        \* save_company_data calls started
    committed,           \* history: the aggregates whose save committed, in commit order
    schema,              \* the tables and indexes that exist in the database
    lastCreate           \* history: the create_tables call made since the last save began

rlVars == <<now, requests_per_second, last_request_time, rlPc, wakeAt, callsMade,
            lastReturn, prevReturn>>

envVars == <<edgar, newsapi, glassdoor, api_key, responses>>

jobVars == <<companies, schedPc, semaphore, jobPc, company_data, filings, idx, results,
             successful_results, errorLog, running, metrics, invoked, fetched, saveError,
             requested, failedCalls, trace, outOfOrder>>

dbVars == <<tx, savesStarted, committed, schema, lastCreate>>

VARIABLES
    \* ---- a MonitoringSystem and its callers (SpecMon)
    monLog,              \* history: the record_* calls made, in order
    report               \* the outcome of the latest get_metrics call

VARIABLES
    \* ---- CompanyDataScraper objects used as context managers (SpecCtx)
    ctxPc,               \* per scraper: "new" | "create_pool" | "create_tables" | "body"
                         \*              | "exit" | "exited" | "enter_failed"
    session,             \* per scraper: self.session: "None" | "open" | "closed"
    pool,                \* per scraper: self.db_manager.pool: "None" | "open" | "closed"
    bodyOutcome,         \* per scraper: the body of the with statement: "None" (not
                         \*              finished) | "returned" | "raised"
    closes               \* history, per scraper: the close() calls made, in order

VARIABLES
    \* ---- one call of SECEdgarScraper._extract_numeric_value (SpecNum)
    value_text,                \* the argument, a string (its characters)
    numPc,               \* "call" | "returned"
    extracted                \* the value returned

VARIABLES
    \* ---- one call of GoogleNewsScraper._calculate_sentiment (SpecSent)
    sentText,            \* the argument, a string (its words and blanks)
    sentPc,              \* "call" | "returned"
    sentiment            \* the value returned

VARIABLES
    \* ---- the list objects of the CompanyData of concurrent jobs (SpecOwn)
    heap,                \* the list objects, by identity
    aggregate,           \* per job: the lists its CompanyData refers to
    ownPc,               \* per job: "new" | "metrics" | "news" | "reviews" | "save" | "done"
    handed               \* per job: the contents handed to save_company_data and returned

VARIABLES
    \* ---- the RateLimiter objects of the services (SpecLim)
    limNow,              \* time.time(), in ticks
    limiterObjects,      \* the RateLimiter objects, by identity: their last_request_time
    limTask              \* per task: its call of wait_if_needed (pc, service, wakeAt)

VARIABLES
    \* ---- calls of GlassdoorScraper._parse_reviews_page (SpecRev)
    revPage,             \* the review elements of the page, in document order
    revPc,               \* "call" | "returned"
    revResult            \* what the call returned or raised

VARIABLES
    \* ---- calls of SECEdgarScraper.extract_financial_metrics (SpecFin)
    finDoc,              \* the filing content: what the two strategies find, its date mentions
    finFilingDate,       \* the filing_date argument
    finPc,               \* "call" | "returned"
    finStrategies,       \* the extraction strategies the call ran, in order
    finMetrics           \* the list the call returned

VARIABLES
    \* ---- ScraperRunner.run_continuous_scraper (SpecLoop)
    loopRunning,         \* self.running of the ScraperRunner
    loopPc,              \* "test" | "start" | "run" | "after" | "except" | "sleep" | "retry" | "exited"
    runs,                \* history: the run_scraper invocations, in order
    flagSetAt            \* history: where the loop was when the signal handler set the flag

monVars == <<monLog, report>>

loopVars == <<loopRunning, loopPc, runs, flagSetAt>>

finVars == <<finDoc, finFilingDate, finPc, finStrategies, finMetrics>>

revVars == <<revPage, revPc, revResult>>

limVars == <<limNow, limiterObjects, limTask>>

ownVars == <<heap, aggregate, ownPc, handed>>

sentVars == <<sentText, sentPc, sentiment>>

numVars == <<value_text, numPc, extracted>>

ctxVars == <<ctxPc, session, pool, bodyOutcome, closes>>

\* The variables that the RateLimiter, the jobs and the database leave alone.
auxVars == <<monVars, ctxVars, numVars, sentVars, ownVars, limVars, revVars, finVars, loopVars>>

vars == <<rlVars, envVars, store, jobVars, dbVars, auxVars>>

(***************************************************************************)
(* RateLimiter                                                             *)
(***************************************************************************)

\* Clock resolution: ticks per second.  Rates are chosen so that 1/r is a
\* whole number of ticks.
TicksPerSecond == 4

\* The rates checked (requests per second).
Rates == {1, 2, 4}

\* time.time() when the program starts: seconds since 1970 are far beyond
\* any interval 1/r, so the first call of a fresh limiter never waits.
Epoch == 8

\* Bounds of the exploration.
NumTasks == 2
MaxCalls == 2
MaxElapsed == 3

Tasks == 1..NumTasks

\* min_interval = 1.0 / self.requests_per_second
MinInterval(rps) == TicksPerSecond \div rps

\* time_since_last = current_time - self.last_request_time
TimeSinceLast(current_time, last) == current_time - last

\* if time_since_last < min_interval:
NeedsWait(time_since_last, min_interval) == time_since_last < min_interval

\* A limiter that wakes its caller one tick early.
SleepTimeShort(time_since_last, min_interval) == min_interval - time_since_last - 1

\* sleep_time = min_interval - time_since_last
SleepTime(time_since_last, min_interval) == min_interval - time_since_last

RLStart ==
    /\ now = Epoch
    /\ requests_per_second \in Rates
    /\ last_request_time = 0
    /\ rlPc = [t \in Tasks |-> "idle"]
    /\ wakeAt = [t \in Tasks |-> 0]
    /\ callsMade = [t \in Tasks |-> 0]
    /\ lastReturn = [t \in Tasks |-> 0]
    /\ prevReturn = [t \in Tasks |-> 0]

\* History: task t's call of wait_if_needed returns now.
Returned(t) ==
    /\ lastReturn' = [lastReturn EXCEPT ![t] = now]
    /\ prevReturn' = [prevReturn EXCEPT ![t] = lastReturn[t]]

\* A task calls wait_if_needed and runs it up to its first suspension point:
\* either it returns at once (no await is reached, so the check and the update
\* of last_request_time are one step of the event loop), or it suspends in
\* asyncio.sleep(sleep_time).
WaitIfNeeded_Call(t) ==
    /\ rlPc[t] = "idle"
    /\ callsMade[t] < MaxCalls
    /\ callsMade' = [callsMade EXCEPT ![t] = @ + 1]
    /\ LET current_time == now
           time_since_last == TimeSinceLast(current_time, last_request_time)
           min_interval == MinInterval(requests_per_second)
       IN IF NeedsWait(time_since_last, min_interval)
          THEN /\ rlPc' = [rlPc EXCEPT ![t] = "sleeping"]
               /\ wakeAt' = [wakeAt EXCEPT ![t] = current_time + SleepTime(time_since_last, min_interval)]
               /\ UNCHANGED <<last_request_time, lastReturn, prevReturn>>
          ELSE /\ last_request_time' = now
               /\ Returned(t)
               /\ UNCHANGED <<rlPc, wakeAt>>
    /\ UNCHANGED <<now, requests_per_second, envVars, auxVars, store, jobVars, dbVars>>

\* A sleep that never ends.
SleepDoneNever(due, current_time) == FALSE

\* await asyncio.sleep(sleep_time) is done once the loop's clock has reached
\* the time it is due.
SleepDone(due, current_time) == current_time >= due

\* asyncio.sleep returns (at its due time or later: the event loop may be busy);
\* the task then runs self.last_request_time = time.time() and returns.
WaitIfNeeded_Wake(t) ==
    /\ rlPc[t] = "sleeping"
    /\ SleepDone(wakeAt[t], now)
    /\ rlPc' = [rlPc EXCEPT ![t] = "idle"]
    /\ last_request_time' = now
    /\ Returned(t)
    /\ wakeAt' = [wakeAt EXCEPT ![t] = 0]
    /\ UNCHANGED <<now, requests_per_second, callsMade, envVars, auxVars, store, jobVars, dbVars>>

\* The clock advances.
Tick ==
    /\ now < Epoch + MaxElapsed
    /\ now' = now + 1
    /\ UNCHANGED <<requests_per_second, last_request_time, rlPc, wakeAt, callsMade,
                   lastReturn, prevReturn, envVars, auxVars, store, jobVars, dbVars>>

RLNext ==
    \/ \E t \in Tasks : WaitIfNeeded_Call(t)
    \/ \E t \in Tasks : WaitIfNeeded_Wake(t)
    \/ Tick


(***************************************************************************)
(* Records, validation models and the database                             *)
(***************************************************************************)

\* Python's None (an absent Optional field, a NULL column).
None == "None"

\* Bounds of the exploration.
NumCompanies == 4
MaxFilings == 2

\* Amounts are counted in thousandths; the DECIMAL(15,2) columns hold
\* hundredths.  The amounts used (1000, 1004, 2000, -500, 333) have no digit 5 in
\* the thousandths place, so that none lies on a rounding tie.  An
\* Optional[float] is <<>> (None) or <<amount>>.
NoAmount == <<>>
Some(v) == <<v>>

\* Calendar days, as '%Y-%m-%d' text.
Dates == {"2024-03-31", "2024-06-30"}

Min(a, b) == IF a <= b THEN a ELSE b
Max(a, b) == IF a >= b THEN a ELSE b

\* A company key (CIK) is a string; the model keeps its characters.
Cik(d) == <<"0", "0", "0", "0", "0", "0", "0", "0", "0", d>>

CompanyNames == <<"Company 1", "Company 2", "Company 3", "Company 4", "Company 5", "Company 6">>
CikDigits == <<"1", "2", "3", "4", "5", "6">>

\* The entities a caller submits: a well-formed one, one whose key was not
\* padded to 10 characters, one without a name, and one whose key is 10
\* letters.
GoodEntity(i) == [name |-> CompanyNames[i], cik |-> Cik(CikDigits[i]), ticker |-> None]
ShortCikEntity(i) == [name |-> CompanyNames[i], cik |-> <<"3", "2", "0", "1", "9", "3">>, ticker |-> None]
NoNameEntity(i) == [name |-> "", cik |-> Cik(CikDigits[i]), ticker |-> "TEST"]
AlphaCikEntity(i) ==
    [name |-> CompanyNames[i], cik |-> <<"A", "B", "C", "D", "E", "F", "G", "H", "I", "J">>,
     ticker |-> None]

\* ---- entity keys

\* str.isdigit() for the characters of the model.
Digits == {"0", "1", "2", "3", "4", "5", "6", "7", "8", "9"}
IsDigit(v) == v # <<>> /\ \A i \in 1..Len(v) : v[i] \in Digits

RECURSIVE Zfill(_, _)
\* str.zfill(width)
Zfill(v, width) == IF Len(v) >= width THEN v ELSE Zfill(<<"0">> \o v, width)

\* The outcome of a call: the value returned, or the exception raised.
Ok(v) == [exc |-> None, value |-> v]
Threw(e) == [exc |-> e, value |-> <<>>]

\* min_length=10, max_length=10 of the two key fields.
CikLength == 10

\* FinancialMetrics.company_cik: the Field constraints, then validate_cik.
ValidateCik(v) ==
    IF Len(v) < CikLength \/ Len(v) > CikLength THEN Threw("ValidationError")
    ELSE IF ~IsDigit(v) THEN Threw("ValidationError")
    ELSE Ok(Zfill(v, CikLength))

\* CompanyData(company_name=..., cik=...): the Field constraints of the model
\* (company_name 1..200 characters, cik exactly 10 characters).
ValidCompanyData(company_name, cik) ==
    /\ Len(company_name) >= 1 /\ Len(company_name) <= 200
    /\ Len(cik) >= CikLength /\ Len(cik) <= CikLength

\* The aggregate scrape_company_data creates.
NewCompanyData(company) ==
    [company_name |-> company.name, cik |-> company.cik, ticker |-> company.ticker,
     financial_metrics |-> <<>>, news_articles |-> <<>>, employee_reviews |-> <<>>]

\* ---- filings

\* financial_data dictionaries (only two of the seven keys are modelled:
\* revenue, constrained ge=0, and net_income, unconstrained; the other five
\* are handled like one or the other).
NoData == [revenue |-> NoAmount, net_income |-> NoAmount]
IsEmptyDict(fd) == fd.revenue = NoAmount /\ fd.net_income = NoAmount

\* Filing contents: the text, and what _extract_xbrl_data,
\* _extract_html_financial_data and _extract_period_end_date find in it.
\* EmptyContent is the "" that get_filing_content returns on failure.
EmptyContent == [text |-> "", xbrl |-> NoData, html |-> NoData, period |-> None]
DocXbrl == [text |-> "<xbrl>", xbrl |-> [revenue |-> Some(1004), net_income |-> NoAmount],
            html |-> NoData, period |-> None]
DocHtml == [text |-> "<table>", xbrl |-> NoData,
            html |-> [revenue |-> Some(1000), net_income |-> Some(-500)], period |-> "2024-06-30"]
DocNegative == [text |-> "<xbrl>(500)", xbrl |-> [revenue |-> Some(-500), net_income |-> NoAmount],
                html |-> NoData, period |-> None]
DocNoFigures == [text |-> "<p>", xbrl |-> NoData, html |-> NoData, period |-> "2024-03-31"]

\* The text of an Atom <updated> element: a date followed by a time, text
\* that starts with no date, or no text at all (ElementTree's .text is None).
Stamp(d) == [date |-> d, rest |-> "T16:30:00-04:00"]
NotADate == [date |-> "n/a", rest |-> ""]
NoText == [date |-> None, rest |-> None]

\* updated[:10]
First10(updated) == updated.date

\* datetime.strptime(filing_date, '%Y-%m-%d') succeeds
IsIsoDate(text) == text \in Dates

\* Entries of the filings feed, as _parse_edgar_feed returns them.
FilingPool ==
    { [link |-> "f1", updated |-> Stamp("2024-03-31"), doc |-> DocXbrl],
      [link |-> "f2", updated |-> Stamp("2024-06-30"), doc |-> DocHtml],
      [link |-> "f3", updated |-> Stamp("2024-03-31"), doc |-> DocNegative],
      [link |-> "f4", updated |-> NotADate, doc |-> DocXbrl],
      [link |-> "f5", updated |-> NoText, doc |-> DocNoFigures] }

RECURSIVE SeqsUpTo(_, _)
\* The sequences over S of length at most n.
SeqsUpTo(S, n) ==
    IF n = 0 THEN {<<>>}
    ELSE LET shorter == SeqsUpTo(S, n - 1)
         IN shorter \cup {Append(q, x) : q \in {r \in shorter : Len(r) = n - 1}, x \in S}

\* An extraction that fills what the first strategy left out from the second.
FinancialDataMerged(doc) ==
    [revenue |-> IF doc.xbrl.revenue # NoAmount THEN doc.xbrl.revenue ELSE doc.html.revenue,
     net_income |-> IF doc.xbrl.net_income # NoAmount THEN doc.xbrl.net_income
                    ELSE doc.html.net_income]

\* financial_data = self._extract_xbrl_data(soup)
\* if not financial_data: financial_data = self._extract_html_financial_data(soup)
FinancialData(doc) == IF ~IsEmptyDict(doc.xbrl) THEN doc.xbrl ELSE doc.html

\* FinancialMetrics(...): revenue has Field(None, ge=0), company_cik its
\* length and validate_cik.
ValidFinancialMetrics(fd) ==
    /\ fd.revenue = NoAmount \/ fd.revenue[1] >= 0
    /\ ValidateCik(fd.company_cik).exc = None

\* extract_financial_metrics(filing_content, filing_date): a list of at most
\* one FinancialMetrics, with the placeholder key; any exception gives [].
ExtractFinancialMetrics(doc, filing_date) ==
    LET fd == FinancialData(doc)
        placeholder == Cik("0")
    IN IF IsEmptyDict(fd) THEN <<>>
       ELSE IF ~IsIsoDate(filing_date) THEN <<>>
       ELSE IF ~ValidFinancialMetrics([revenue |-> fd.revenue, company_cik |-> placeholder])
            THEN <<>>
       ELSE << [company_cik |-> ValidateCik(placeholder).value,
                revenue |-> fd.revenue, net_income |-> fd.net_income,
                filing_date |-> filing_date,
                period_end_date |-> IF doc.period = None THEN filing_date ELSE doc.period] >>

\* for metric in metrics: metric.company_cik = cik
SetCik(metrics_list, cik) ==
    [i \in 1..Len(metrics_list) |-> [metrics_list[i] EXCEPT !.company_cik = cik]]

\* ---- news and reviews

Urls == <<"https://news/1", "https://news/2", "https://news/3">>

\* Articles of a company as save_company_data takes them.
Articles(company_name, n) ==
    [i \in 1..n |-> [company_name |-> company_name, title |-> "title", url |-> Urls[i],
                     sentiment_score |-> Some(333)]]

\* Reviews of a company as save_company_data takes them.
Reviews(company_name, n) ==
    [i \in 1..n |-> [company_name |-> company_name, rating |-> 3, review_text |-> "text"]]

\* urlparse(url).scheme, for the URLs of the model.
Scheme(url) ==
    CASE url \in {Urls[i] : i \in 1..Len(Urls)} -> "https"
      [] url = "ftp://news/9" -> "ftp"
      [] OTHER -> ""

\* The entries of 'articles' in the news API's answer: two well-formed ones,
\* one without a title and one whose URL is not http(s).  description is
\* what _calculate_sentiment counts in the text.
ArticleCandidates ==
    { [title |-> "title", url |-> Urls[1],
       description |-> [positive |-> 1, negative |-> 0, words |-> 3]],
      [title |-> "other", url |-> Urls[2],
       description |-> [positive |-> 0, negative |-> 0, words |-> 0]],
      [title |-> "", url |-> Urls[3],
       description |-> [positive |-> 1, negative |-> 0, words |-> 3]],
      [title |-> "title", url |-> "ftp://news/9",
       description |-> [positive |-> 1, negative |-> 0, words |-> 3]] }

\* _calculate_sentiment(text): None for an empty text, else
\* (positive - negative) / words clamped to [-1, 1], in thousandths.
CalculateSentiment(d) ==
    IF d.words = 0 THEN NoAmount
    ELSE Some(Max(-1000, Min(1000, (1000 * (d.positive - d.negative)) \div d.words)))

\* NewsArticle(...): title 1..500 characters, url matching ^https?://,
\* company_name 1..200 characters, sentiment_score in [-1, 1].
ValidNewsArticle(a) ==
    /\ Len(a.title) >= 1 /\ Len(a.title) <= 500
    /\ Scheme(a.url) \in {"http", "https"}
    /\ Len(a.company_name) >= 1 /\ Len(a.company_name) <= 200
    /\ a.sentiment_score = NoAmount
          \/ (a.sentiment_score[1] >= -1000 /\ a.sentiment_score[1] <= 1000)

RECURSIVE ParseNewsResponse(_, _)
\* _parse_news_response(data, company_name): the articles that validate, in
\* the order of the answer; one that raises is skipped.
ParseNewsResponse(data, company_name) ==
    IF data = <<>> THEN <<>>
    ELSE LET article == [company_name |-> company_name, title |-> Head(data).title,
                         url |-> Head(data).url,
                         sentiment_score |-> CalculateSentiment(Head(data).description)]
         IN (IF ValidNewsArticle(article) THEN <<article>> ELSE <<>>)
            \o ParseNewsResponse(Tail(data), company_name)

\* The review elements of the reviews page: one with a rating in range, one
\* with a rating out of range, one without text.
ReviewCandidates ==
    { [rating |-> 4, review_text |-> "text"],
      [rating |-> 9, review_text |-> "text"],
      [rating |-> 3, review_text |-> ""] }

\* review_date=datetime.now().date(): a date object, not a datetime.
ReviewDate == [type |-> "date"]

\* EmployeeReview(...): company_name 1..200 characters, rating in [1, 5],
\* review_date an Optional[datetime] (pydantic takes a datetime, a string or
\* a number for it and rejects a date object).
ValidEmployeeReview(r) ==
    /\ Len(r.company_name) >= 1 /\ Len(r.company_name) <= 200
    /\ r.rating >= 1 /\ r.rating <= 5
    /\ r.review_date.type \in {"datetime", "str", "int", "None"}

RECURSIVE ParseReviewsPage(_, _)
\* _parse_reviews_page(content, company_name): for every element with a
\* review text, the EmployeeReview built from it if it validates; one that
\* raises is skipped.
ParseReviewsPage(page, company_name) ==
    IF page = <<>> THEN <<>>
    ELSE LET review == [company_name |-> company_name, rating |-> Head(page).rating,
                        review_text |-> Head(page).review_text, review_date |-> ReviewDate]
         IN (IF Head(page).review_text # "" /\ ValidEmployeeReview(review)
             THEN <<review>> ELSE <<>>)
            \o ParseReviewsPage(Tail(page), company_name)

\* ---- the database

InitStore == [companies |-> {}, financial_metrics |-> {}, news_articles |-> {},
              employee_reviews |-> <<>>]

\* A value of a DECIMAL(p,2) column: NULL, or the amount in hundredths,
\* rounded half away from zero (unit: thousandths per hundredth).
ToDecimal(v, unit) ==
    IF v = NoAmount THEN NoAmount
    ELSE IF v[1] >= 0 THEN Some((2 * v[1] + unit) \div (2 * unit))
         ELSE Some(0 - ((2 * (0 - v[1]) + unit) \div (2 * unit)))

\* Thousandths per hundredth.
Scale == 10

\* The row of an aggregate in companies (industry and sector are optional
\* strings handled exactly like ticker and are left out).
CompanyRow(cd) == [company_name |-> cd.company_name, cik |-> cd.cik, ticker |-> cd.ticker]

\* An insert that keeps the stored row on conflict.
UpsertCompanyKeepFirst(st, cd) ==
    IF \E r \in st.companies : r.cik = cd.cik THEN st
    ELSE [st EXCEPT !.companies = @ \cup {CompanyRow(cd)}]

\* INSERT INTO companies ... ON CONFLICT (cik) DO UPDATE SET company_name, ticker, ...
UpsertCompany(st, cd) ==
    [st EXCEPT !.companies = {r \in @ : r.cik # cd.cik} \cup {CompanyRow(cd)}]

MetricRow(m) ==
    [company_cik |-> m.company_cik,
     revenue |-> ToDecimal(m.revenue, Scale), net_income |-> ToDecimal(m.net_income, Scale),
     filing_date |-> m.filing_date, period_end_date |-> m.period_end_date]

SameMetricKey(r, m) ==
    /\ r.company_cik = m.company_cik
    /\ r.filing_date = m.filing_date
    /\ r.period_end_date = m.period_end_date

\* An upsert that keeps the stored row on conflict.
UpsertMetricKeepFirst(st, m) ==
    IF \E r \in st.financial_metrics : SameMetricKey(r, m) THEN st
    ELSE [st EXCEPT !.financial_metrics = @ \cup {MetricRow(m)}]

\* INSERT INTO financial_metrics ... ON CONFLICT (company_cik, filing_date,
\* period_end_date) DO UPDATE SET revenue = EXCLUDED.revenue, ...
UpsertMetric(st, m) ==
    [st EXCEPT !.financial_metrics =
        {r \in @ : ~SameMetricKey(r, m)} \cup {MetricRow(m)}]

\* company_cik VARCHAR(10) REFERENCES companies(cik)
ForeignKeyHolds(st, m) == \E r \in st.companies : r.cik = m.company_cik

\* The row of an article in news_articles; sentiment_score is DECIMAL(3,2).
ArticleRow(a) ==
    [company_name |-> a.company_name, title |-> a.title, url |-> a.url,
     sentiment_score |-> ToDecimal(a.sentiment_score, Scale)]

\* An insert that overwrites the stored row on conflict.
InsertArticleOverwrite(st, a) ==
    [st EXCEPT !.news_articles = {r \in @ : r.url # a.url} \cup {ArticleRow(a)}]

\* A table whose unique key is (company_name, url).
InsertArticlePerEntity(st, a) ==
    IF \E r \in st.news_articles : r.url = a.url /\ r.company_name = a.company_name THEN st
    ELSE [st EXCEPT !.news_articles = @ \cup {ArticleRow(a)}]

\* INSERT INTO news_articles ... ON CONFLICT (url) DO NOTHING
InsertArticle(st, a) ==
    IF \E r \in st.news_articles : r.url = a.url THEN st
    ELSE [st EXCEPT !.news_articles = @ \cup {ArticleRow(a)}]

\* An insert that skips a review equal to a stored one.
InsertReviewOnce(st, r) ==
    IF \E i \in 1..Len(st.employee_reviews) : st.employee_reviews[i] = r THEN st
    ELSE [st EXCEPT !.employee_reviews = Append(@, r)]

\* INSERT INTO employee_reviews ...: the table has no key but the serial id,
\* so its rows are kept as a list in insertion order.
InsertReview(st, r) ==
    [st EXCEPT !.employee_reviews = Append(@, r)]

\* The statements of save_company_data, in the order it executes them.
Statements(cd) ==
    <<[op |-> "company", arg |-> cd]>>
    \o [i \in 1..Len(cd.financial_metrics) |-> [op |-> "metric", arg |-> cd.financial_metrics[i]]]
    \o [i \in 1..Len(cd.news_articles) |-> [op |-> "article", arg |-> cd.news_articles[i]]]
    \o [i \in 1..Len(cd.employee_reviews) |-> [op |-> "review", arg |-> cd.employee_reviews[i]]]

\* A schema without the REFERENCES clause.
ViolatesConstraintNever(st, stmt) == FALSE

\* The statement is rejected by a constraint of the schema.
ViolatesConstraint(st, stmt) ==
    stmt.op = "metric" /\ ~ForeignKeyHolds(st, stmt.arg)

\* conn.execute(statement) on the rows st.
Execute(st, stmt) ==
    CASE stmt.op = "company" -> UpsertCompany(st, stmt.arg)
      [] stmt.op = "metric" -> UpsertMetric(st, stmt.arg)
      [] stmt.op = "article" -> InsertArticle(st, stmt.arg)
      [] stmt.op = "review" -> InsertReview(st, stmt.arg)

RECURSIVE ExecuteAll(_, _)
ExecuteAll(st, stmts) ==
    IF stmts = <<>> THEN st ELSE ExecuteAll(Execute(st, Head(stmts)), Tail(stmts))

\* The rows after a save_company_data(cd) whose transaction commits.
ApplySave(st, cd) == ExecuteAll(st, Statements(cd))

(***************************************************************************)
(* scrape_company_data and scrape_multiple_companies                       *)
(***************************************************************************)

Jobs == 1..Len(companies)

\* semaphore = asyncio.Semaphore(3)
SemaphoreValue == 3

\* for filing in filings[:5]
FilingsLimit == 5

\* A slice that keeps the whole list.
TakeAll(q, n) == q

\* q[:n]
Take(q, n) == SubSeq(q, 1, Min(n, Len(q)))

\* A semaphore that never blocks.
CanAcquireAlways(value) == TRUE

\* Semaphore.acquire returns without waiting when the value is positive.
CanAcquire(value) == value > 0

\* asyncio.gather(..., return_exceptions=False)
ReturnExceptionsOff == FALSE

\* asyncio.gather(..., return_exceptions=True)
ReturnExceptions == TRUE

\* The responses of a service to one request: HTTP 200, another status, or
\* a transport error or timeout (aiohttp raises for both).
Responses == {"200", "503", "error"}

\* The four kinds of source call.
Adapters == {"filings", "content", "news", "reviews"}
NoCalls == [a \in Adapters |-> 0]

IsTerminal(pc) == pc \in {"done", "failed"}
IsRunning(pc) == pc \in {"filings", "content", "news", "reviews", "save"}

NoResult == [pending |-> TRUE]
IsException(result) == "exc" \in DOMAIN result
IsCompanyData(result) == "cik" \in DOMAIN result

NoCompanyData == [absent |-> TRUE]

NoneFetched == [financial_metrics |-> <<>>, news_articles |-> <<>>, employee_reviews |-> <<>>]

\* MonitoringSystem.__init__
NewMetrics == [total_requests |-> 0, successful_requests |-> 0, failed_requests |-> 0,
               rate_limit_hits |-> 0, data_points_collected |-> 0]

\* The state when scrape_multiple_companies(batch) awaits asyncio.gather: the
\* coroutines are created, none has started.
JobStart(batch) ==
    /\ companies = batch
    /\ schedPc = "gather"
    /\ semaphore = SemaphoreValue
    /\ jobPc = [j \in 1..Len(batch) |-> "queued"]
    /\ company_data = [j \in 1..Len(batch) |-> NoCompanyData]
    /\ filings = [j \in 1..Len(batch) |-> <<>>]
    /\ idx = [j \in 1..Len(batch) |-> 0]
    /\ results = [j \in 1..Len(batch) |-> NoResult]
    /\ successful_results = <<>>
    /\ errorLog = <<>>
    /\ running = TRUE
    /\ metrics = NewMetrics
    /\ invoked = [j \in 1..Len(batch) |-> {}]
    /\ fetched = [j \in 1..Len(batch) |-> NoneFetched]
    /\ saveError = [j \in 1..Len(batch) |-> FALSE]
    /\ requested = [j \in 1..Len(batch) |-> NoCalls]
    /\ failedCalls = [j \in 1..Len(batch) |-> NoCalls]
    /\ trace = [j \in 1..Len(batch) |-> <<>>]
    /\ outOfOrder = FALSE

\* A task that fails without leaving "async with semaphore".
RaiseHoldsSlot(j, exc, sem) ==
    /\ jobPc' = [jobPc EXCEPT ![j] = "failed"]
    /\ results' = [results EXCEPT ![j] = [exc |-> exc]]
    /\ semaphore' = sem

\* An exception leaves scrape_company_data in job j: "async with semaphore"
\* releases the slot (sem is the value while the job holds it) and gather
\* keeps the exception as the job's result.
Raise(j, exc, sem) ==
    /\ jobPc' = [jobPc EXCEPT ![j] = "failed"]
    /\ results' = [results EXCEPT ![j] = [exc |-> exc]]
    /\ semaphore' = sem + 1

\* History of one source call of job j: a request was sent, and it failed
\* unless the response was HTTP 200.
Called(j, adapter, sent, response) ==
    /\ invoked' = [invoked EXCEPT ![j] = @ \cup {adapter}]
    /\ requested' = [requested EXCEPT ![j][adapter] = IF sent THEN @ + 1 ELSE @]
    /\ failedCalls' = [failedCalls EXCEPT ![j][adapter] =
                          IF sent /\ response # "200" THEN @ + 1 ELSE @]

\* History of the task of job j: the events it adds, in order.
Event(op, adapter, item) == [op |-> op, adapter |-> adapter, limiter |-> None, item |-> item]
Traced(j, events) == trace' = [trace EXCEPT ![j] = @ \o events]

\* A limiter shared by every adapter.
LimiterOfGeneral(adapter) == "general"

\* rate_limiters[...] as each adapter method names it.
LimiterOf(adapter) ==
    CASE adapter \in {"filings", "content"} -> "sec_edgar"
      [] adapter = "news" -> "google_news"
      [] adapter = "reviews" -> "glassdoor"

\* What one call of an adapter method does, in order: unless it returns
\* before (sent is false: no API key), it awaits wait_if_needed on its
\* limiter and then sends its request; it returns in every case.  item is
\* the position of the filing whose content is fetched (0 otherwise).
AdapterCall(adapter, item, sent) ==
    <<Event("call", adapter, item)>>
    \o (IF sent THEN <<[Event("wait_if_needed", adapter, item) EXCEPT !.limiter = LimiterOf(adapter)],
                       Event("request", adapter, item)>>
        ELSE <<>>)
    \o <<Event("return", adapter, item)>>

\* A loop that fetches a filing again until its content arrives.
NextFilingRetry(i, response) == IF response = "200" THEN i + 1 ELSE i

\* for filing in filings[:5]: the next turn takes the next filing, whatever
\* the last fetch returned.
NextFiling(i, response) == i + 1

\* A job that saves as soon as the news have arrived.
AfterNewsSave == "save"

\* The statement that follows the news step in scrape_company_data.
AfterNews == "reviews"

\* limited_scrape: the task acquires the semaphore (waiters are woken in
\* the order they queued) and scrape_company_data starts: it builds the
\* CompanyData, which raises a ValidationError outside the try block.
StartJob(j) ==
    /\ schedPc = "gather"
    /\ jobPc[j] = "queued"
    /\ \A i \in Jobs : i < j => jobPc[i] # "queued"
    /\ CanAcquire(semaphore)
    /\ IF ValidCompanyData(companies[j].name, companies[j].cik)
       THEN /\ jobPc' = [jobPc EXCEPT ![j] = "filings"]
            /\ company_data' = [company_data EXCEPT ![j] = NewCompanyData(companies[j])]
            /\ semaphore' = semaphore - 1
            /\ UNCHANGED results
       ELSE /\ Raise(j, "ValidationError", semaphore - 1)
            /\ UNCHANGED company_data
    /\ Traced(j, <<Event("start", None, 0)>>)
    /\ UNCHANGED <<rlVars, dbVars, envVars, auxVars, store, companies, schedPc, filings, idx,
                   successful_results, errorLog, running, outOfOrder, metrics, invoked, fetched,
                   saveError, requested, failedCalls>>

\* get_company_filings(cik): the entries of the feed on HTTP 200, [] on any
\* other status; the except clause turns an error of the request into [].
CompanyFilings(response, feed) ==
    IF response = "200" THEN Ok(feed) ELSE Ok(<<>>)

\* get_filing_content(filing_url): the text on HTTP 200, "" otherwise.
FilingContent(response, doc) ==
    IF response = "200" THEN Ok(doc) ELSE Ok(EmptyContent)

\* if not self.api_key: ... return []
HasKeyAlways(key) == TRUE
HasKey(key) == key

\* get_company_news(company_name): [] without an API key, before any request;
\* the parsed articles on HTTP 200, [] otherwise.
CompanyNews(key, response, data, company_name) ==
    IF ~HasKey(key) THEN Ok(<<>>)
    ELSE IF response = "200" THEN Ok(ParseNewsResponse(data, company_name))
    ELSE Ok(<<>>)

\* get_company_reviews without its try/except around the request.
CompanyReviewsUnguarded(response, page, company_name) ==
    IF response = "200" THEN Ok(ParseReviewsPage(page, company_name))
    ELSE IF response = "error" THEN Threw("ClientError")
    ELSE Ok(<<>>)

\* get_company_reviews(company_name): the parsed reviews on HTTP 200, []
\* otherwise.
CompanyReviews(response, page, company_name) ==
    IF response = "200" THEN Ok(ParseReviewsPage(page, company_name)) ELSE Ok(<<>>)

\* filings = await self.sec_scraper.get_company_filings(cik)
GetCompanyFilings(j) ==
    /\ jobPc[j] = "filings"
    /\ \E response \in responses :
        LET outcome == CompanyFilings(response, edgar[j])
        IN /\ IF outcome.exc # None
              THEN /\ Raise(j, outcome.exc, semaphore)
                   /\ UNCHANGED <<filings, idx>>
              ELSE /\ filings' = [filings EXCEPT ![j] = outcome.value]
                   /\ idx' = [idx EXCEPT ![j] = 1]
                   /\ jobPc' = [jobPc EXCEPT ![j] = IF Take(outcome.value, FilingsLimit) # <<>>
                                                     THEN "content" ELSE "news"]
                   /\ UNCHANGED <<results, semaphore>>
           /\ Called(j, "filings", TRUE, response)
           /\ Traced(j, AdapterCall("filings", 0, TRUE))
    /\ UNCHANGED <<rlVars, dbVars, envVars, auxVars, store, companies, schedPc, company_data,
                   successful_results, errorLog, running, outOfOrder, metrics, fetched, saveError>>

\* One turn of the loop over filings[:5]: get_filing_content, and for a
\* non-empty content extract_financial_metrics(content, filing['updated'][:10]).
\* Subscripting an 'updated' of None raises TypeError, which the except
\* clause of scrape_company_data re-raises.
GetFilingContent(j) ==
    /\ jobPc[j] = "content"
    /\ \E response \in responses :
        LET filing == filings[j][idx[j]]
            outcome == FilingContent(response, filing.doc)
            filing_content == outcome.value
            metrics_list == SetCik(ExtractFinancialMetrics(filing_content, First10(filing.updated)),
                                   companies[j].cik)
            last == idx[j] >= Len(Take(filings[j], FilingsLimit))
        IN /\ IF outcome.exc # None
              THEN /\ Raise(j, outcome.exc, semaphore)
                   /\ UNCHANGED <<company_data, fetched, idx>>
              ELSE IF filing_content.text # "" /\ filing.updated = NoText
              THEN /\ Raise(j, "TypeError", semaphore)
                   /\ UNCHANGED <<company_data, fetched, idx>>
              ELSE /\ company_data' = [company_data EXCEPT ![j].financial_metrics =
                                          IF filing_content.text # "" THEN @ \o metrics_list ELSE @]
                   /\ fetched' = [fetched EXCEPT ![j].financial_metrics =
                                          IF filing_content.text # "" THEN @ \o metrics_list ELSE @]
                   /\ idx' = [idx EXCEPT ![j] = NextFiling(@, response)]
                   /\ jobPc' = [jobPc EXCEPT ![j] = IF last THEN "news" ELSE "content"]
                   /\ UNCHANGED <<results, semaphore>>
           /\ Called(j, "content", TRUE, response)
           /\ Traced(j, AdapterCall("content", idx[j], TRUE))
    /\ UNCHANGED <<rlVars, dbVars, envVars, auxVars, store, companies, schedPc, filings,
                   successful_results, errorLog, running, outOfOrder, metrics, saveError>>

\* news_articles = await self.news_scraper.get_company_news(company_name)
GetCompanyNews(j) ==
    /\ jobPc[j] = "news"
    /\ \E response \in responses :
        LET outcome == CompanyNews(api_key, response, newsapi[j], companies[j].name)
        IN /\ IF outcome.exc # None
              THEN /\ Raise(j, outcome.exc, semaphore)
                   /\ UNCHANGED <<company_data, fetched>>
              ELSE /\ company_data' = [company_data EXCEPT ![j].news_articles = @ \o outcome.value]
                   /\ fetched' = [fetched EXCEPT ![j].news_articles = @ \o outcome.value]
                   /\ jobPc' = [jobPc EXCEPT ![j] = AfterNews]
                   /\ UNCHANGED <<results, semaphore>>
           /\ Called(j, "news", HasKey(api_key), response)
           /\ Traced(j, AdapterCall("news", 0, HasKey(api_key)))
    /\ UNCHANGED <<rlVars, dbVars, envVars, auxVars, store, companies, schedPc, filings, idx,
                   successful_results, errorLog, running, outOfOrder, metrics, saveError>>

\* reviews = await self.glassdoor_scraper.get_company_reviews(company_name)
GetCompanyReviews(j) ==
    /\ jobPc[j] = "reviews"
    /\ \E response \in responses :
        LET outcome == CompanyReviews(response, glassdoor[j], companies[j].name)
        IN /\ IF outcome.exc # None
              THEN /\ Raise(j, outcome.exc, semaphore)
                   /\ UNCHANGED <<company_data, fetched>>
              ELSE /\ company_data' = [company_data EXCEPT ![j].employee_reviews = @ \o outcome.value]
                   /\ fetched' = [fetched EXCEPT ![j].employee_reviews = @ \o outcome.value]
                   /\ jobPc' = [jobPc EXCEPT ![j] = "save"]
                   /\ UNCHANGED <<results, semaphore>>
           /\ Called(j, "reviews", TRUE, response)
           /\ Traced(j, AdapterCall("reviews", 0, TRUE))
    /\ UNCHANGED <<rlVars, dbVars, envVars, auxVars, store, companies, schedPc, filings, idx,
                   successful_results, errorLog, running, outOfOrder, metrics, saveError>>

\* The except clause of scrape_company_data swallowing the error.
SaveFailedSwallowed(j) ==
    /\ jobPc' = [jobPc EXCEPT ![j] = "done"]
    /\ results' = [results EXCEPT ![j] = company_data[j]]
    /\ semaphore' = semaphore + 1

\* save_company_data raises: "except Exception ... raise" passes the error on.
SaveFailed(j) == Raise(j, "PostgresError", semaphore)

\* await self.db_manager.save_company_data(company_data): the transaction
\* commits and the job returns company_data, or it fails, nothing is written
\* (SpecDB has the transaction statement by statement) and the job raises.
SaveCompanyData(j) ==
    /\ jobPc[j] = "save"
    /\ \/ /\ store' = ApplySave(store, company_data[j])
          /\ jobPc' = [jobPc EXCEPT ![j] = "done"]
          /\ results' = [results EXCEPT ![j] = company_data[j]]
          /\ semaphore' = semaphore + 1
          /\ outOfOrder' = (outOfOrder \/ \E i \in 1..(j - 1) : IsRunning(jobPc[i]))
          /\ UNCHANGED saveError
       \/ /\ SaveFailed(j)
          /\ saveError' = [saveError EXCEPT ![j] = TRUE]
          /\ UNCHANGED <<store, outOfOrder>>
    /\ Traced(j, <<Event("save_company_data", None, 0)>>)
    /\ UNCHANGED <<rlVars, dbVars, envVars, auxVars, companies, schedPc, company_data, filings, idx,
                   successful_results, errorLog, running, metrics, invoked, fetched,
                   requested, failedCalls>>

\* asyncio.gather is done: with return_exceptions=True when every task has
\* finished; without it, also as soon as one task has raised.
GatherReady ==
    \/ \A j \in Jobs : IsTerminal(jobPc[j])
    \/ ~ReturnExceptions /\ \E j \in Jobs : jobPc[j] = "failed"

\* A loop over results that stops at the first exception.
SuccessfulResultsUntilError(res, i) ==
    LET errors == {k \in i..Len(res) : ~IsCompanyData(res[k])}
        stop == IF errors = {} THEN Len(res) + 1 ELSE CHOOSE k \in errors : \A m \in errors : k <= m
    IN SubSeq(res, i, stop - 1)

RECURSIVE SuccessfulResultsNewestFirst(_, _)
\* A filter that puts each result in front of those found before it.
SuccessfulResultsNewestFirst(res, i) ==
    IF i > Len(res) THEN <<>>
    ELSE IF IsCompanyData(res[i]) THEN SuccessfulResultsNewestFirst(res, i + 1) \o <<res[i]>>
         ELSE SuccessfulResultsNewestFirst(res, i + 1)

RECURSIVE SuccessfulResults(_, _)
\* successful_results: the results that are no exception, in list order.
SuccessfulResults(res, i) ==
    IF i > Len(res) THEN <<>>
    ELSE IF IsCompanyData(res[i]) THEN <<res[i]>> \o SuccessfulResults(res, i + 1)
         ELSE SuccessfulResults(res, i + 1)

\* A filter that logs no failure.
LoggedErrorsNone(res, names, i) == <<>>

RECURSIVE LoggedErrors(_, _, _)
\* logger.error(f"Failed to scrape company {companies[i]['name']}: {result}")
LoggedErrors(res, names, i) ==
    IF i > Len(res) THEN <<>>
    ELSE IF IsException(res[i])
         THEN <<[name |-> names[i].name, error |-> res[i].exc]>> \o LoggedErrors(res, names, i + 1)
         ELSE LoggedErrors(res, names, i + 1)

\* results = await asyncio.gather(...) returns and the loop over results
\* builds successful_results, which scrape_multiple_companies returns.
GatherReturns ==
    /\ schedPc = "gather"
    /\ GatherReady
    /\ IF ReturnExceptions \/ \A j \in Jobs : jobPc[j] # "failed"
       THEN /\ schedPc' = "returned"
            /\ successful_results' = SuccessfulResults(results, 1)
            /\ errorLog' = LoggedErrors(results, companies, 1)
       ELSE /\ schedPc' = "raised"
            /\ UNCHANGED <<successful_results, errorLog>>
    /\ UNCHANGED <<rlVars, dbVars, envVars, auxVars, store, companies, semaphore, jobPc, company_data, filings,
                   idx, results, running, metrics, invoked, fetched, saveError,
                   requested, failedCalls, trace, outOfOrder>>

\* ScraperRunner.signal_handler (run_scraper.py), on SIGINT or SIGTERM while
\* the batch runs: self.running = False.  The flag is read by the loop of
\* run_continuous_scraper only.
SignalHandlerRunner ==
    /\ schedPc = "gather"
    /\ running
    /\ running' = FALSE
    /\ UNCHANGED <<rlVars, dbVars, envVars, auxVars, store, companies, schedPc, semaphore, jobPc,
                   company_data, filings, idx, results, successful_results, errorLog,
                   metrics, invoked, fetched, saveError, requested, failedCalls, trace, outOfOrder>>

\* signal_handler (scraper.py), on SIGINT or SIGTERM while the batch runs:
\* sys.exit(0).  SystemExit leaves the event loop, asyncio.run cancels every
\* task that has not finished (a transaction in progress is rolled back,
\* "async with semaphore" releases the slot) and the process exits.
SignalHandlerExit ==
    /\ schedPc = "gather"
    /\ running
    /\ schedPc' = "exited"
    /\ jobPc' = [j \in Jobs |-> IF IsTerminal(jobPc[j]) THEN jobPc[j] ELSE "cancelled"]
    /\ semaphore' = SemaphoreValue
    /\ UNCHANGED <<rlVars, dbVars, envVars, auxVars, store, companies, company_data, filings, idx,
                   results, successful_results, errorLog, running, metrics, invoked,
                   fetched, saveError, requested, failedCalls, trace, outOfOrder>>

(***************************************************************************)
(* save_company_data on the connections of the pool                        *)
(***************************************************************************)

\* Bounds of the exploration.
NumConns == 2
MaxSaves == 2

Conns == 1..NumConns

NoTx == [pc |-> "idle"]

\* A metric record of the entity cik; all share one filing date and period end.
DbMetric(cik, amount) ==
    [company_cik |-> cik, revenue |-> Some(amount), net_income |-> NoAmount,
     filing_date |-> "2024-03-31", period_end_date |-> "2024-03-31"]

\* Entity 1 saved again under another name and ticker.
RenamedEntity(i) == [GoodEntity(i) EXCEPT !.name = "Renamed", !.ticker = "NEW"]

DbEntities == {GoodEntity(1), [GoodEntity(2) EXCEPT !.ticker = "MSFT"]}

\* Two articles of one URL that differ in their title.
SameUrlArticles(company_name) ==
    <<[company_name |-> company_name, title |-> "title", url |-> Urls[1],
       sentiment_score |-> Some(333)],
      [company_name |-> company_name, title |-> "other", url |-> Urls[1],
       sentiment_score |-> NoAmount]>>

\* What a save carries besides the entity: its metrics, articles and reviews.
DbContents(e) ==
    { <<<<>>, <<>>, <<>>>>,
      <<<<>>, SameUrlArticles(e.name), Reviews(e.name, 2)>>,
      <<<<DbMetric(e.cik, 2000)>>, Articles(e.name, 1), Reviews(e.name, 1)>>,
      <<<<DbMetric(e.cik, 1004)>>, <<>>, <<>>>> }

\* An aggregate of the first entity whose metric carries the key of the
\* second (save_company_data inserts metric.company_cik as it finds it).
ForeignMetricAggregate ==
    [NewCompanyData(GoodEntity(1)) EXCEPT
        !.financial_metrics = <<DbMetric(GoodEntity(2).cik, 2000)>>]

\* The aggregates handed to save_company_data: one of two entities, with no
\* metric or one of two metrics of the same (key, filing date, period end)
\* that differ in revenue, with or without articles and reviews; the first
\* entity renamed; and the first entity with a metric of the second.
Aggregates ==
    UNION { { [NewCompanyData(e) EXCEPT !.financial_metrics = x[1],
                                        !.news_articles = x[2],
                                        !.employee_reviews = x[3]] :
                x \in DbContents(e) } : e \in DbEntities }
    \cup {NewCompanyData(RenamedEntity(1)), ForeignMetricAggregate}

\* Statements run one by one, each committed as it is executed.
Autocommit == FALSE

\* async with conn.transaction(): the statements of a save are one transaction.
InTransaction == TRUE

\* The rows and unique keys a statement locks until its transaction ends.
LockOf(stmt) ==
    CASE stmt.op = "company" -> {<<"companies", stmt.arg.cik>>}
      [] stmt.op = "metric" -> {<<"financial_metrics", stmt.arg.company_cik,
                                  stmt.arg.filing_date, stmt.arg.period_end_date>>}
      [] stmt.op = "article" -> {<<"news_articles", stmt.arg.url>>}
      [] stmt.op = "review" -> {}

Executed(c) == SubSeq(Statements(tx[c].data), 1, tx[c].done)

LocksHeld(c) ==
    IF tx[c].pc = "open"
    THEN UNION {LockOf(Statements(tx[c].data)[i]) : i \in 1..tx[c].done}
    ELSE {}

\* The rows connection c sees: what is committed and what it wrote itself.
View(c) == IF InTransaction THEN ExecuteAll(store, Executed(c)) ELSE store

\* The tables and indexes of create_tables_sql, in the order of the script.
SchemaObjects ==
    <<"companies", "financial_metrics", "news_articles", "employee_reviews",
      "idx_companies_cik", "idx_financial_metrics_cik", "idx_news_articles_company",
      "idx_employee_reviews_company", "idx_news_articles_date", "idx_financial_metrics_date">>

FullSchema == {SchemaObjects[i] : i \in 1..Len(SchemaObjects)}

\* CREATE TABLE / CREATE INDEX without IF NOT EXISTS: an error when the
\* object exists.
CreatePlain(db, obj) ==
    IF obj \in db.schema THEN [db EXCEPT !.error = TRUE]
    ELSE [db EXCEPT !.schema = @ \cup {obj}]

\* CREATE TABLE IF NOT EXISTS / CREATE INDEX IF NOT EXISTS: creates the empty
\* object, or does nothing when it exists.
CreateIfNotExists(db, obj) == [db EXCEPT !.schema = @ \cup {obj}]

RECURSIVE RunScript(_, _)
\* conn.execute(create_tables_sql): the statements one after another; the
\* script stops at the first error.
RunScript(db, objs) ==
    IF objs = <<>> \/ db.error THEN db
    ELSE RunScript(CreateIfNotExists(db, Head(objs)), Tail(objs))

NoCreate == [called |-> FALSE]

DBStart ==
    /\ store = InitStore
    /\ tx = [c \in Conns |-> NoTx]
    /\ committed = <<>>
    /\ savesStarted = 0
    /\ schema = {}
    /\ lastCreate = NoCreate

\* __aenter__ of a run calls create_tables before the run's first save; runs
\* follow one another.  The script is one implicit transaction: after an
\* error nothing of it stays.
CreateTables ==
    /\ \A c \in Conns : tx[c].pc = "idle"
    /\ LET db == RunScript([schema |-> schema, error |-> FALSE], SchemaObjects)
       IN /\ schema' = IF db.error THEN schema ELSE db.schema
          /\ lastCreate' = [called |-> TRUE, error |-> db.error,
                            schema |-> schema, store |-> store]
    /\ UNCHANGED <<rlVars, envVars, auxVars, jobVars, store, tx, committed, savesStarted>>

\* save_company_data(cd) takes a connection from the pool (the free
\* connections are interchangeable: the first one) and opens the
\* transaction (before, seen: history, the rows and the number of committed
\* saves at the call).
BeginSave(c, cd) ==
    /\ tx[c].pc = "idle"
    /\ \A d \in Conns : d < c => tx[d].pc # "idle"
    /\ savesStarted < MaxSaves
    /\ schema = FullSchema
    /\ lastCreate' = NoCreate
    /\ savesStarted' = savesStarted + 1
    /\ tx' = [tx EXCEPT ![c] = [pc |-> "open", data |-> cd, done |-> 0,
                                before |-> store, seen |-> Len(committed)]]
    /\ UNCHANGED <<rlVars, envVars, auxVars, jobVars, store, committed, schema>>

\* await conn.execute(...) of the next statement succeeds; it waits while
\* another open transaction holds the row or key it writes.
ExecuteStatement(c) ==
    /\ tx[c].pc = "open"
    /\ tx[c].done < Len(Statements(tx[c].data))
    /\ LET stmt == Statements(tx[c].data)[tx[c].done + 1]
       IN /\ \A d \in Conns \ {c} : LockOf(stmt) \cap LocksHeld(d) = {}
          /\ ~ViolatesConstraint(View(c), stmt)
          /\ store' = IF InTransaction THEN store ELSE Execute(store, stmt)
    /\ tx' = [tx EXCEPT ![c].done = @ + 1]
    /\ UNCHANGED <<rlVars, envVars, auxVars, jobVars, committed, savesStarted, schema, lastCreate>>

\* await conn.execute(...) raises (a constraint or data error, a deadlock, a
\* lost connection): the transaction block rolls back and save_company_data
\* raises.
StatementFails(c) ==
    /\ tx[c].pc = "open"
    /\ tx[c].done < Len(Statements(tx[c].data))
    /\ tx' = [tx EXCEPT ![c].pc = "failed"]
    /\ UNCHANGED <<rlVars, envVars, auxVars, jobVars, store, committed, savesStarted, schema, lastCreate>>

\* The transaction block ends after the last statement and commits.
CommitSave(c) ==
    /\ tx[c].pc = "open"
    /\ tx[c].done = Len(Statements(tx[c].data))
    /\ store' = IF InTransaction THEN ExecuteAll(store, Statements(tx[c].data)) ELSE store
    /\ committed' = Append(committed, tx[c].data)
    /\ tx' = [tx EXCEPT ![c] = NoTx]
    /\ UNCHANGED <<rlVars, envVars, auxVars, jobVars, savesStarted, schema, lastCreate>>

\* The caller has seen the error; the connection is back in the pool.
ReleaseFailed(c) ==
    /\ tx[c].pc = "failed"
    /\ tx' = [tx EXCEPT ![c] = NoTx]
    /\ UNCHANGED <<rlVars, envVars, auxVars, jobVars, store, committed, savesStarted, schema, lastCreate>>

DBNext ==
    \/ CreateTables
    \/ \E c \in Conns, cd \in Aggregates : BeginSave(c, cd)
    \/ \E c \in Conns : ExecuteStatement(c)
    \/ \E c \in Conns : StatementFails(c)
    \/ \E c \in Conns : CommitSave(c)
    \/ \E c \in Conns : ReleaseFailed(c)

(***************************************************************************)
(* MonitoringSystem                                                        *)
(***************************************************************************)

\* Bounds of the exploration: the record_* calls made and the largest count
\* passed to record_data_points.
MaxMonCalls == 4
MaxCount == 2

\* The values time.time() - start_time takes when get_metrics is called.
Runtimes == {0, 1}

\* a / b: the quotient (kept as the pair of its terms), or ZeroDivisionError.
Divide(a, b) == IF b = 0 THEN Threw("ZeroDivisionError") ELSE Ok(<<a, b>>)

\* The int 0 of the else branches, as a quotient.
Zero == <<0, 1>>

\* A get_metrics that divides whatever the total is.
HasRequestsAlways(total_requests) == TRUE

\* ... if self.metrics['total_requests'] > 0 else 0
HasRequests(total_requests) == total_requests > 0

\* get_metrics() when time.time() - start_time is runtime.
GetMetrics(m, runtime) ==
    LET requests_per_second_ == IF runtime > 0 THEN Divide(m.total_requests, runtime)
                                ELSE Ok(Zero)
        success_rate == IF HasRequests(m.total_requests)
                        THEN Divide(m.successful_requests, m.total_requests)
                        ELSE Ok(Zero)
    IN IF requests_per_second_.exc # None THEN Threw(requests_per_second_.exc)
       ELSE IF success_rate.exc # None THEN Threw(success_rate.exc)
       ELSE Ok([metrics |-> m, runtime_seconds |-> runtime,
                requests_per_second |-> requests_per_second_.value,
                success_rate |-> success_rate.value])

\* The job variables a MonitoringSystem call leaves alone.
jobVarsNotMetrics ==
    <<companies, schedPc, semaphore, jobPc, company_data, filings, idx, results,
      successful_results, errorLog, running, invoked, fetched, saveError,
      requested, failedCalls, trace, outOfOrder>>

\* Everything else a MonitoringSystem call leaves alone.
monOthers == <<rlVars, envVars, store, dbVars, jobVarsNotMetrics, ctxVars, numVars, sentVars, ownVars, limVars, revVars, finVars, loopVars>>

\* get_metrics has not been called.
NoReport == [pending |-> TRUE]

MonStart ==
    /\ metrics = NewMetrics
    /\ monLog = <<>>
    /\ report = NoReport

\* record_request(success)
RecordRequest(success) ==
    /\ Len(monLog) < MaxMonCalls
    /\ metrics' = [metrics EXCEPT !.total_requests = @ + 1,
                                  !.successful_requests = IF success THEN @ + 1 ELSE @,
                                  !.failed_requests = IF success THEN @ ELSE @ + 1]
    /\ monLog' = Append(monLog, [call |-> "record_request", success |-> success])
    /\ UNCHANGED <<monOthers, report>>

\* record_rate_limit()
RecordRateLimit ==
    /\ Len(monLog) < MaxMonCalls
    /\ metrics' = [metrics EXCEPT !.rate_limit_hits = @ + 1]
    /\ monLog' = Append(monLog, [call |-> "record_rate_limit"])
    /\ UNCHANGED <<monOthers, report>>

\* record_data_points(count), count an int.
RecordDataPoints(count) ==
    /\ Len(monLog) < MaxMonCalls
    /\ metrics' = [metrics EXCEPT !.data_points_collected = @ + count]
    /\ monLog' = Append(monLog, [call |-> "record_data_points", count |-> count])
    /\ UNCHANGED <<monOthers, report>>

\* get_metrics(); a caller keeps the value returned, an exception would be
\* the outcome kept.
GetMetricsCall(runtime) ==
    /\ report' = GetMetrics(metrics, runtime)
    /\ UNCHANGED <<monOthers, metrics, monLog>>

MonNext ==
    \/ \E success \in BOOLEAN : RecordRequest(success)
    \/ RecordRateLimit
    \/ \E count \in -1..MaxCount : RecordDataPoints(count)
    \/ \E runtime \in Runtimes : GetMetricsCall(runtime)

(***************************************************************************)
(* CompanyDataScraper as an async context manager                          *)
(***************************************************************************)

\* Bound of the exploration: the scraper objects in use.
NumScrapers == 2

Scrapers == 1..NumScrapers

\* __init__: self.session = None, DatabaseManager(): self.pool = None
CtxStart ==
    /\ ctxPc = [c \in Scrapers |-> "new"]
    /\ session = [c \in Scrapers |-> None]
    /\ pool = [c \in Scrapers |-> None]
    /\ bodyOutcome = [c \in Scrapers |-> None]
    /\ closes = [c \in Scrapers |-> <<>>]

\* Everything a context manager step leaves alone.
ctxOthers == <<rlVars, envVars, store, dbVars, jobVars, monVars, numVars, sentVars, ownVars, limVars, revVars, finVars, loopVars>>

\* __aenter__: self.session = aiohttp.ClientSession(...)
AEnter(c) ==
    /\ ctxPc[c] = "new"
    /\ session' = [session EXCEPT ![c] = "open"]
    /\ ctxPc' = [ctxPc EXCEPT ![c] = "create_pool"]
    /\ UNCHANGED <<ctxOthers, pool, bodyOutcome, closes>>

\* await self.db_manager.create_pool(): the pool is created, or the error of
\* asyncpg.create_pool leaves __aenter__ (then __aexit__ is not called).
CreatePool(c) ==
    /\ ctxPc[c] = "create_pool"
    /\ \/ /\ pool' = [pool EXCEPT ![c] = "open"]
          /\ ctxPc' = [ctxPc EXCEPT ![c] = "create_tables"]
       \/ /\ ctxPc' = [ctxPc EXCEPT ![c] = "enter_failed"]
          /\ UNCHANGED pool
    /\ UNCHANGED <<ctxOthers, session, bodyOutcome, closes>>

\* await self.db_manager.create_tables(); return self: the body starts, or
\* the error leaves __aenter__.
CreateTablesOnEnter(c) ==
    /\ ctxPc[c] = "create_tables"
    /\ \E ok \in BOOLEAN :
          ctxPc' = [ctxPc EXCEPT ![c] = IF ok THEN "body" ELSE "enter_failed"]
    /\ UNCHANGED <<ctxOthers, session, pool, bodyOutcome, closes>>

\* The body of "async with CompanyDataScraper() as scraper" ends, normally
\* or with an exception; __aexit__ is called.
BodyEnds(c) ==
    /\ ctxPc[c] = "body"
    /\ \E outcome \in {"returned", "raised"} :
          bodyOutcome' = [bodyOutcome EXCEPT ![c] = outcome]
    /\ ctxPc' = [ctxPc EXCEPT ![c] = "exit"]
    /\ UNCHANGED <<ctxOthers, session, pool, closes>>

\* An __aexit__ that closes the pool first.
AExitPoolFirst == <<"pool", "session">>

\* __aexit__: if self.session: await self.session.close()
\*            await self.db_manager.close_pool()
AExit == <<"session", "pool">>

\* One statement of __aexit__ (exc_type is not looked at): the resource is
\* closed if it is set ("if self.session", "if self.pool").
AExitStep(c) ==
    /\ ctxPc[c] = "exit"
    /\ LET k == Len(closes[c]) + 1
           resource == AExit[k]
       IN /\ IF resource = "session"
             THEN /\ session' = [session EXCEPT ![c] = IF @ # None THEN "closed" ELSE @]
                  /\ closes' = [closes EXCEPT ![c] = IF session[c] # None
                                                      THEN Append(@, "session") ELSE @]
                  /\ UNCHANGED pool
             ELSE /\ pool' = [pool EXCEPT ![c] = IF @ # None THEN "closed" ELSE @]
                  /\ closes' = [closes EXCEPT ![c] = IF pool[c] # None
                                                      THEN Append(@, "pool") ELSE @]
                  /\ UNCHANGED session
          /\ ctxPc' = [ctxPc EXCEPT ![c] = IF k = Len(AExit) THEN "exited" ELSE "exit"]
    /\ UNCHANGED <<ctxOthers, bodyOutcome>>

CtxNext ==
    \/ \E c \in Scrapers : AEnter(c)
    \/ \E c \in Scrapers : CreatePool(c)
    \/ \E c \in Scrapers : CreateTablesOnEnter(c)
    \/ \E c \in Scrapers : BodyEnds(c)
    \/ \E c \in Scrapers : AExitStep(c)

(***************************************************************************)
(* SECEdgarScraper._extract_numeric_value                                  *)
(***************************************************************************)

\* Bound of the exploration: the length of the texts enumerated.
MaxTextLen == 3

\* The characters of the texts enumerated: digits, the decimal point, the
\* thousands separator, two currency symbols, a space, parentheses, a
\* hyphen and a letter.
NumChars == {"1", "5", ".", ",", "$", "€", " ", "(", ")", "-", "a"}

\* The texts of test_extract_numeric_value.
ExampleDollars == <<"$", "1", ",", "0", "0", "0", ",", "0", "0", "0">>
ExampleParens == <<"(", "5", "0", "0", ",", "0", "0", "0", ")">>
ExampleMillion == <<"1", ".", "5", " ", "m", "i", "l", "l", "i", "o", "n">>
ExampleNoNumber == <<"N", "o", " ", "n", "u", "m", "b", "e", "r", " ", "h", "e", "r", "e">>

\* The characters \s matches.
Whitespace == {" "}

\* text = re.sub(r'[,$\s]', '', text)
RemoveFormatting(t) == SelectSeq(t, LAMBDA c : c \notin ({",", "$"} \cup Whitespace))

RECURSIVE ParensToMinus(_)
\* text = re.sub(r'\(([^)]+)\)', r'-\1', text): from left to right, every
\* "(" that is followed by at least one character other than ")" and then
\* by ")" is replaced with "-" and that ")" is dropped.
ParensToMinus(t) ==
    IF t = <<>> THEN <<>>
    ELSE IF Head(t) # "(" THEN <<Head(t)>> \o ParensToMinus(Tail(t))
    ELSE LET closing == {j \in 2..Len(t) : t[j] = ")"}
             first == CHOOSE j \in closing : \A k \in closing : j <= k
         IN IF closing = {} \/ first = 2
            THEN <<"(">> \o ParensToMinus(Tail(t))
            ELSE <<"-">> \o SubSeq(t, 2, first - 1)
                     \o ParensToMinus(SubSeq(t, first + 1, Len(t)))

RECURSIVE DigitRun(_, _)
\* \d+ at position p: the digits that follow one another from p on.
DigitRun(t, p) ==
    IF p > Len(t) \/ t[p] \notin Digits THEN 0 ELSE 1 + DigitRun(t, p + 1)

\* The length of the match of -?\d+(?:\.\d+)? at position p (0: no match).
MatchAt(t, p) ==
    LET sign == IF t[p] = "-" THEN 1 ELSE 0
        whole == DigitRun(t, p + sign)
        dot == p + sign + whole
        fraction == IF dot <= Len(t) /\ t[dot] = "." THEN DigitRun(t, dot + 1) ELSE 0
    IN IF whole = 0 THEN 0
       ELSE sign + whole + (IF fraction > 0 THEN 1 + fraction ELSE 0)

\* re.search(r'-?\d+(?:\.\d+)?', text): the leftmost match, or <<>>.
SearchNumber(t) ==
    LET starts == {p \in 1..Len(t) : MatchAt(t, p) > 0}
        p == CHOOSE q \in starts : \A r \in starts : q <= r
    IN IF starts = {} THEN <<>> ELSE SubSeq(t, p, p + MatchAt(t, p) - 1)

DigitValue(c) ==
    CASE c = "0" -> 0 [] c = "1" -> 1 [] c = "2" -> 2 [] c = "3" -> 3 [] c = "4" -> 4
      [] c = "5" -> 5 [] c = "6" -> 6 [] c = "7" -> 7 [] c = "8" -> 8 [] c = "9" -> 9

RECURSIVE DigitsValue(_, _)
\* The integer written by the digits of m, read after acc.
DigitsValue(m, acc) ==
    IF m = <<>> THEN acc
    ELSE DigitsValue(Tail(m), IF Head(m) \in Digits THEN 10 * acc + DigitValue(Head(m)) ELSE acc)

RECURSIVE Normalize(_, _)
\* n / 10^decimals without trailing zeros after the point.
Normalize(n, decimals) ==
    IF decimals > 0 /\ n % 10 = 0 THEN Normalize(n \div 10, decimals - 1)
    ELSE <<n, decimals>>

\* float(match.group()): the number, as <<n, decimals>> for n / 10^decimals.
ToFloat(m) ==
    LET dots == {i \in 1..Len(m) : m[i] = "."}
        decimals == IF dots = {} THEN 0 ELSE Len(m) - (CHOOSE i \in dots : TRUE)
        magnitude == Normalize(DigitsValue(m, 0), decimals)
    IN IF m[1] = "-" THEN <<0 - magnitude[1], magnitude[2]>> ELSE magnitude

\* _extract_numeric_value(text)
ExtractNumericValue(t) ==
    LET match == SearchNumber(ParensToMinus(RemoveFormatting(t)))
    IN IF match # <<>> THEN Some(ToFloat(match)) ELSE NoAmount

\* Everything a call of _extract_numeric_value leaves alone.
numOthers == <<rlVars, envVars, store, dbVars, jobVars, monVars, ctxVars, sentVars, ownVars, limVars, revVars, finVars, loopVars>>

NumStart ==
    /\ value_text \in SeqsUpTo(NumChars, MaxTextLen)
                \cup {ExampleDollars, ExampleParens, ExampleMillion, ExampleNoNumber}
    /\ numPc = "call"
    /\ extracted = NoAmount

\* value = self._extract_numeric_value(value_text)
ExtractNumericValueCall ==
    /\ numPc = "call"
    /\ extracted' = ExtractNumericValue(value_text)
    /\ numPc' = "returned"
    /\ UNCHANGED <<numOthers, value_text>>

NumNext == ExtractNumericValueCall

(***************************************************************************)
(* GoogleNewsScraper._calculate_sentiment                                  *)
(***************************************************************************)

\* Bound of the exploration: the number of pieces (words and blanks) of the
\* texts enumerated.
MaxPieces == 4

\* The pieces the texts enumerated are made of: a blank, and runs of
\* characters without whitespace.
Pieces == {" ", "good", "Profit", "great,excellent", "bad", "losses", "the"}

\* The texts of test_sentiment_calculation.
PositiveText == <<"This", " ", "is", " ", "a", " ", "great", " ", "company", " ", "with", " ", "excellent", " ", "growth", " ", "prospects">>
NegativeText == <<"This", " ", "is", " ", "a", " ", "bad", " ", "company", " ", "with", " ", "poor", " ", "performance", " ", "and", " ", "losses">>
NeutralText == <<"The", " ", "company", " ", "reported", " ", "quarterly", " ", "results">>

\* positive_words and negative_words
PositiveWords == {"good", "great", "excellent", "positive", "growth", "profit", "success"}
NegativeWords == {"bad", "poor", "negative", "loss", "decline", "failure", "crisis"}

\* The keywords that occur in piece.lower(), for the pieces of the model.
KeywordsIn(piece) ==
    CASE piece \in PositiveWords \cup NegativeWords -> {piece}
      [] piece = "Profit" -> {"profit"}
      [] piece = "great,excellent" -> {"great", "excellent"}
      [] piece = "losses" -> {"loss"}
      [] OTHER -> {}

\* A count of every occurrence of a keyword in the text.
KeywordOccurrences(t, words) ==
    Cardinality({<<i, w>> \in (1..Len(t)) \X words : w \in KeywordsIn(t[i])})

\* sum(1 for word in words if word in text_lower): the keywords that occur
\* in the text, each counted once.
KeywordCount(t, words) ==
    Cardinality({w \in words : \E i \in 1..Len(t) : w \in KeywordsIn(t[i])})

\* len(text.split()): the runs of pieces that are not whitespace.
WordCount(t) ==
    Cardinality({i \in 1..Len(t) :
        t[i] \notin Whitespace /\ (i = 1 \/ t[i - 1] \in Whitespace)})

\* What _calculate_sentiment counts in a text.
Counted(t) ==
    [positive |-> KeywordCount(t, PositiveWords),
     negative |-> KeywordCount(t, NegativeWords),
     words |-> WordCount(t)]

\* Everything a call of _calculate_sentiment leaves alone.
sentOthers == <<rlVars, envVars, store, dbVars, jobVars, monVars, ctxVars, numVars, ownVars, limVars, revVars, finVars, loopVars>>

SentStart ==
    /\ sentText \in SeqsUpTo(Pieces, MaxPieces) \cup {PositiveText, NegativeText, NeutralText}
    /\ sentPc = "call"
    /\ sentiment = NoAmount

\* sentiment_score = self._calculate_sentiment(text)
CalculateSentimentCall ==
    /\ sentPc = "call"
    /\ sentiment' = CalculateSentiment(Counted(sentText))
    /\ sentPc' = "returned"
    /\ UNCHANGED <<sentOthers, sentText>>

SentNext == CalculateSentimentCall

(***************************************************************************)
(* The lists of the CompanyData objects of concurrent jobs                 *)
(***************************************************************************)

\* Bound of the exploration: the jobs running side by side.
NumOwners == 2

Owners == 1..NumOwners

\* The three list fields of CompanyData; their class-level defaults ([]) are
\* the first three objects of the heap.
ListFields == <<"financial_metrics", "news_articles", "employee_reviews">>
DefaultRef(field) == CHOOSE i \in 1..Len(ListFields) : ListFields[i] = field
ClassDefaults == [i \in 1..Len(ListFields) |-> <<>>]

\* A model class whose instances all refer to the default object itself.
FieldDefaultShared(h, field) == [heap |-> h, ref |-> DefaultRef(field)]

\* A field left out of CompanyData(...): pydantic gives the instance a copy
\* of the default, a new list object.
FieldDefault(h, field) == [heap |-> Append(h, h[DefaultRef(field)]), ref |-> Len(h) + 1]

\* What an adapter call of job o returns, a record or nothing: a
\* FinancialMetrics gets the job's key (metric.company_cik = cik), an article
\* or a review is built with the job's company_name.
FetchedBy(o, field, found) ==
    [i \in 1..(IF found THEN 1 ELSE 0) |->
        IF field = "financial_metrics"
        THEN [kind |-> field, company_cik |-> GoodEntity(o).cik, company_name |-> None]
        ELSE [kind |-> field, company_cik |-> None, company_name |-> GoodEntity(o).name]]

\* The contents of the lists an aggregate refers to.
Contents(h, refs) == [f \in DOMAIN refs |-> h[refs[f]]]

NoLists == [absent |-> TRUE]

ownOthers == <<rlVars, envVars, store, dbVars, jobVars, monVars, ctxVars, numVars, sentVars, limVars, revVars, finVars, loopVars>>

OwnStart ==
    /\ heap = ClassDefaults
    /\ aggregate = [o \in Owners |-> NoLists]
    /\ ownPc = [o \in Owners |-> "new"]
    /\ handed = [o \in Owners |-> NoLists]

\* company_data = CompanyData(company_name=..., cik=..., ...): the three
\* list fields take their defaults.
NewAggregate(o) ==
    /\ ownPc[o] = "new"
    /\ LET a == FieldDefault(heap, ListFields[1])
           b == FieldDefault(a.heap, ListFields[2])
           c == FieldDefault(b.heap, ListFields[3])
       IN /\ heap' = c.heap
          /\ aggregate' = [aggregate EXCEPT ![o] =
                [financial_metrics |-> a.ref, news_articles |-> b.ref, employee_reviews |-> c.ref]]
    /\ ownPc' = [ownPc EXCEPT ![o] = "metrics"]
    /\ UNCHANGED <<ownOthers, handed>>

\* company_data.<field>.extend(<what the adapter returned>), after the await
\* of the adapter call, during which the other jobs run.
ExtendList(o, field, next) ==
    /\ \E found \in BOOLEAN :
          heap' = [heap EXCEPT ![aggregate[o][field]] = @ \o FetchedBy(o, field, found)]
    /\ ownPc' = [ownPc EXCEPT ![o] = next]
    /\ UNCHANGED <<ownOthers, aggregate, handed>>

ExtendMetrics(o) == ownPc[o] = "metrics" /\ ExtendList(o, "financial_metrics", "news")
ExtendNews(o) == ownPc[o] = "news" /\ ExtendList(o, "news_articles", "reviews")
ExtendReviews(o) == ownPc[o] = "reviews" /\ ExtendList(o, "employee_reviews", "save")

\* await self.db_manager.save_company_data(company_data); return company_data
HandOver(o) ==
    /\ ownPc[o] = "save"
    /\ handed' = [handed EXCEPT ![o] = Contents(heap, aggregate[o])]
    /\ ownPc' = [ownPc EXCEPT ![o] = "done"]
    /\ UNCHANGED <<ownOthers, heap, aggregate>>

OwnNext ==
    \E o \in Owners :
        \/ NewAggregate(o)
        \/ ExtendMetrics(o)
        \/ ExtendNews(o)
        \/ ExtendReviews(o)
        \/ HandOver(o)

(***************************************************************************)
(* The RateLimiter objects of the services                                 *)
(***************************************************************************)

\* Bounds of the exploration: the tasks calling the limiters and the ticks
\* that pass.
NumLimTasks == 2
MaxLimElapsed == 2

LimTasks == 1..NumLimTasks

\* The keys of rate_limiters.
Services == <<"sec_edgar", "google_news", "glassdoor", "general">>
ServiceNames == {Services[i] : i \in 1..Len(Services)}

\* min_interval of each limiter, in ticks.  The intervals of the code are
\* 0.1 s, 864 s, 5 s and 0.5 s; the model keeps their order.
LimInterval(service) ==
    CASE service = "sec_edgar" -> 1
      [] service = "general" -> 2
      [] service = "glassdoor" -> 3
      [] service = "google_news" -> 4

\* A registry whose keys all name one RateLimiter object.
LimiterObjectShared(service) == 1

\* rate_limiters = {...}: every key gets a RateLimiter object of its own.
LimiterObject(service) == CHOOSE i \in 1..Len(Services) : Services[i] = service

rate_limiters == [service \in ServiceNames |-> LimiterObject(service)]

\* rate_limiters[service].last_request_time
LastRequestTime(service) == limiterObjects[rate_limiters[service]]

limOthers == <<rlVars, envVars, store, dbVars, jobVars, monVars, ctxVars, numVars, sentVars, ownVars, revVars, finVars, loopVars>>

\* A task that is in no call of wait_if_needed.
NoLimiterCall == [pc |-> "idle", service |-> None, wakeAt |-> 0]

\* RateLimiter.__init__ for every key: last_request_time = 0.0.
LimStart ==
    /\ limNow = Epoch
    /\ limiterObjects = [o \in 1..Len(Services) |-> 0]
    /\ limTask = [t \in LimTasks |-> NoLimiterCall]

\* await rate_limiters[service].wait_if_needed() up to its first suspension
\* point: self is the object the key names, and only self is read or written.
LimiterCall(t, service) ==
    /\ limTask[t].pc = "idle"
    /\ LET self == rate_limiters[service]
           current_time == limNow
           time_since_last == TimeSinceLast(current_time, limiterObjects[self])
           min_interval == LimInterval(service)
       IN IF NeedsWait(time_since_last, min_interval)
          THEN /\ limTask' = [limTask EXCEPT ![t] =
                                 [pc |-> "sleeping", service |-> service,
                                  wakeAt |-> current_time + SleepTime(time_since_last, min_interval)]]
               /\ UNCHANGED limiterObjects
          ELSE /\ limiterObjects' = [limiterObjects EXCEPT ![self] = limNow]
               /\ UNCHANGED limTask
    /\ UNCHANGED <<limNow, limOthers>>

\* asyncio.sleep returns; self.last_request_time = time.time().
LimiterWake(t) ==
    /\ limTask[t].pc = "sleeping"
    /\ SleepDone(limTask[t].wakeAt, limNow)
    /\ limiterObjects' = [limiterObjects EXCEPT ![rate_limiters[limTask[t].service]] = limNow]
    /\ limTask' = [limTask EXCEPT ![t] = NoLimiterCall]
    /\ UNCHANGED <<limNow, limOthers>>

\* The clock advances.
LimTick ==
    /\ limNow < Epoch + MaxLimElapsed
    /\ limNow' = limNow + 1
    /\ UNCHANGED <<limiterObjects, limTask, limOthers>>

LimNext ==
    \/ \E t \in LimTasks, service \in ServiceNames : LimiterCall(t, service)
    \/ \E t \in LimTasks : LimiterWake(t)
    \/ LimTick

(***************************************************************************)
(* GlassdoorScraper._parse_reviews_page                                    *)
(***************************************************************************)

\* Bounds of the exploration: the review elements of a page and the length
\* of the text of a rating span.
MaxElements == 2
MaxRatingLen == 2

\* The characters of the rating spans enumerated: a digit in range, a digit
\* out of range, the decimal point and a letter.
RatingChars == {"4", "9", ".", "x"}

\* The text of the text div of an element: empty, blank, or words.
ReviewTexts == {<<>>, <<" ">>, <<"o", "k">>, <<" ", "o", "k">>}

\* What element.find(...) returns: no tag, or a tag with its text.
NoTag == [found |-> FALSE, text |-> <<>>]
TagWith(t) == [found |-> TRUE, text |-> t]

\* A review element as the parser sees it: the first span whose class
\* matches rating|Rating and the first div whose class matches
\* text|content|reviewText.
ReviewElements ==
    [rating_element : {TagWith(t) : t \in SeqsUpTo(RatingChars, MaxRatingLen)} \cup {NoTag},
     text_element : {TagWith(t) : t \in ReviewTexts} \cup {NoTag}]

\* The length of the match of \d+\.?\d* at position p (0: no match).
RatingMatchAt(t, p) ==
    LET whole == DigitRun(t, p)
        dot == p + whole
    IN IF whole = 0 THEN 0
       ELSE IF dot <= Len(t) /\ t[dot] = "." THEN whole + 1 + DigitRun(t, dot + 1)
       ELSE whole

\* re.search(r'(\d+\.?\d*)', rating_text): the leftmost match, or <<>>.
SearchRating(t) ==
    LET starts == {p \in 1..Len(t) : RatingMatchAt(t, p) > 0}
        p == CHOOSE q \in starts : \A r \in starts : q <= r
    IN IF starts = {} THEN <<>> ELSE SubSeq(t, p, p + RatingMatchAt(t, p) - 1)

\* rating = 3.0  # Default rating
DefaultRating == <<3, 0>>

\* The rating of an element, as <<n, decimals>>: float(rating_match.group(1))
\* if the element has a rating span and a number is found in it, else the
\* default.
RatingOf(element) ==
    IF ~element.rating_element.found \/ SearchRating(element.rating_element.text) = <<>>
    THEN DefaultRating
    ELSE ToFloat(SearchRating(element.rating_element.text))

RECURSIVE Strip(_)
\* str.strip()
Strip(t) ==
    IF t = <<>> THEN t
    ELSE IF Head(t) \in Whitespace THEN Strip(Tail(t))
    ELSE IF t[Len(t)] \in Whitespace THEN Strip(SubSeq(t, 1, Len(t) - 1))
    ELSE t

\* review_text = "" unless the element has a text div: its stripped text.
ReviewTextOf(element) ==
    IF element.text_element.found THEN Strip(element.text_element.text) ELSE <<>>

RECURSIVE TenTo(_)
TenTo(k) == IF k = 0 THEN 1 ELSE 10 * TenTo(k - 1)

\* rating: float = Field(..., ge=1, le=5)
RatingInRange(rating) == rating[1] >= TenTo(rating[2]) /\ rating[1] <= 5 * TenTo(rating[2])

\* EmployeeReview(company_name=..., rating=..., review_text=...,
\* review_date=datetime.now().date()) validates.
EmployeeReviewValidates(company_name, rating, review_date) ==
    /\ Len(company_name) >= 1 /\ Len(company_name) <= 200
    /\ RatingInRange(rating)
    /\ review_date.type \in {"datetime", "str", "int", "None"}

RECURSIVE ParseReviewElements(_, _)
\* The loop over review_elements: an element with a review text is turned
\* into an EmployeeReview and appended; if the constructor raises, the
\* except clause of the loop body logs a warning and goes on.
ParseReviewElements(elements, company_name) ==
    IF elements = <<>> THEN <<>>
    ELSE LET rating == RatingOf(Head(elements))
             review_text == ReviewTextOf(Head(elements))
         IN (IF review_text # <<>> /\ EmployeeReviewValidates(company_name, rating, ReviewDate)
             THEN <<[company_name |-> company_name, rating |-> rating, review_text |-> review_text]>>
             ELSE <<>>)
            \o ParseReviewElements(Tail(elements), company_name)

revOthers == <<rlVars, envVars, store, dbVars, jobVars, monVars, ctxVars, numVars, sentVars, ownVars, limVars, finVars, loopVars>>

RevStart ==
    /\ revPage \in SeqsUpTo(ReviewElements, MaxElements)
    /\ revPc = "call"
    /\ revResult = NoResult

\* reviews = self._parse_reviews_page(content, company_name): both try
\* blocks catch Exception, so the call returns the list in every case.
ParseReviewsPageCall ==
    /\ revPc = "call"
    /\ revResult' = Ok(ParseReviewElements(revPage, GoodEntity(1).name))
    /\ revPc' = "returned"
    /\ UNCHANGED <<revOthers, revPage>>

RevNext == ParseReviewsPageCall

(***************************************************************************)
(* SECEdgarScraper.extract_financial_metrics                               *)
(***************************************************************************)

\* Bound of the exploration: the date mentions of a filing's text.
MaxMentions == 2

\* date_patterns, in the order of the list: "period ended <Month d, yyyy>",
\* "as of <Month d, yyyy>", and a bare yyyy-mm-dd.
DatePatterns == <<"period ended", "as of", "iso">>

\* What a pattern can capture in the texts enumerated: for the first two a
\* full month name or an abbreviated one, for the third a date or digits
\* that are no date.
Captures(pattern) ==
    IF pattern = "iso" THEN {"2023-09-30", "2023-13-45"}
    ELSE {"December 31, 2023", "Dec 31, 2023"}

\* The places of a text where a pattern matches, in text order.
Mentions ==
    UNION { [pattern : {DatePatterns[i]}, date_str : Captures(DatePatterns[i])]
            : i \in 1..Len(DatePatterns) }

\* The dictionaries a strategy can return.
Dictionaries ==
    [revenue : {NoAmount, Some(1004), Some(-500)}, net_income : {NoAmount, Some(7)}]

\* match = re.search(pattern, text, re.IGNORECASE): the leftmost match.
SearchPattern(pattern, mentions) ==
    LET at == {i \in 1..Len(mentions) : mentions[i].pattern = pattern}
    IN IF at = {} THEN None ELSE mentions[CHOOSE i \in at : \A k \in at : i <= k].date_str

\* datetime.strptime(date_str, '%B %d, %Y'), and on ValueError
\* datetime.strptime(date_str, '%Y-%m-%d'): the date, or None on ValueError.
ParseDate(date_str) ==
    CASE date_str = "December 31, 2023" -> "2023-12-31"
      [] date_str = "2023-09-30" -> "2023-09-30"
      [] OTHER -> None

RECURSIVE PeriodEndFrom(_, _)
\* The loop of _extract_period_end_date from pattern i on: the date of the
\* first pattern whose leftmost match parses, None when the loop ends.
PeriodEndFrom(i, mentions) ==
    IF i > Len(DatePatterns) THEN None
    ELSE LET date_str == SearchPattern(DatePatterns[i], mentions)
         IN IF date_str # None /\ ParseDate(date_str) # None THEN ParseDate(date_str)
            ELSE PeriodEndFrom(i + 1, mentions)

\* The filing content as extract_financial_metrics sees it.
Parsed(xbrl, html, mentions) ==
    [text |-> "<html>", xbrl |-> xbrl, html |-> html, period |-> PeriodEndFrom(1, mentions),
     mentions |-> mentions]

\* The strategies a call runs: the second one only if the first returned
\* an empty dictionary.
StrategiesRun(doc) ==
    IF IsEmptyDict(doc.xbrl) THEN <<"_extract_xbrl_data", "_extract_html_financial_data">>
    ELSE <<"_extract_xbrl_data">>

finOthers == <<rlVars, envVars, store, dbVars, jobVars, monVars, ctxVars, numVars, sentVars, ownVars, limVars, revVars, loopVars>>

FinStart ==
    /\ \E xbrl \in Dictionaries, html \in Dictionaries, mentions \in SeqsUpTo(Mentions, MaxMentions) :
          finDoc = Parsed(xbrl, html, mentions)
    /\ finFilingDate \in Dates \cup {NotADate.date}
    /\ finPc = "call"
    /\ finStrategies = <<>>
    /\ finMetrics = <<>>

\* metrics = self.sec_scraper.extract_financial_metrics(filing_content, filing_date)
ExtractFinancialMetricsCall ==
    /\ finPc = "call"
    /\ finStrategies' = StrategiesRun(finDoc)
    /\ finMetrics' = ExtractFinancialMetrics(finDoc, finFilingDate)
    /\ finPc' = "returned"
    /\ UNCHANGED <<finOthers, finDoc, finFilingDate>>

FinNext == ExtractFinancialMetricsCall

(***************************************************************************)
(* ScraperRunner.run_continuous_scraper (run_scraper.py)                   *)
(***************************************************************************)

\* Bound of the exploration: the run_scraper invocations of one process.
MaxRuns == 3

\* No signal has arrived.
NoSignal == [pending |-> TRUE]

\* A loop without the try block: an exception of the run leaves it.
OnExceptionLeave(flag) == "exited"

\* except Exception: the error is logged; "if self.running" the loop waits
\* one hour; then the loop goes on with its test.
OnException(flag) == IF flag THEN "retry" ELSE "test"

\* After a run that returned: "if self.running" the loop waits interval_hours.
OnReturn(flag) == IF flag THEN "sleep" ELSE "test"

loopOthers == <<rlVars, envVars, store, dbVars, jobVars, monVars, ctxVars, numVars, sentVars, ownVars, limVars, revVars, finVars>>

\* ScraperRunner.__init__ and the call of run_continuous_scraper.
LoopStart ==
    /\ loopRunning = TRUE
    /\ loopPc = "test"
    /\ runs = <<>>
    /\ flagSetAt = NoSignal

\* while self.running:
LoopTest ==
    /\ loopPc = "test"
    /\ loopPc' = IF loopRunning THEN "start" ELSE "exited"
    /\ UNCHANGED <<loopRunning, runs, flagSetAt, loopOthers>>

\* await self.run_scraper(companies): the invocation begins.  The test of
\* the loop and this call are separate bytecodes, and a Python signal
\* handler runs between bytecodes.
StartRun ==
    /\ loopPc = "start"
    /\ Len(runs) < MaxRuns
    /\ loopPc' = "run"
    /\ runs' = Append(runs, [flagAtStart |-> ~loopRunning, outcome |-> "running"])
    /\ UNCHANGED <<loopRunning, flagSetAt, loopOthers>>

\* run_scraper returns.
RunReturns ==
    /\ loopPc = "run"
    /\ loopPc' = "after"
    /\ runs' = [runs EXCEPT ![Len(runs)].outcome = "returned"]
    /\ UNCHANGED <<loopRunning, flagSetAt, loopOthers>>

\* run_scraper raises (it re-raises every error of the batch and of
\* entering the CompanyDataScraper).
RunRaises ==
    /\ loopPc = "run"
    /\ loopPc' = "except"
    /\ runs' = [runs EXCEPT ![Len(runs)].outcome = "raised"]
    /\ UNCHANGED <<loopRunning, flagSetAt, loopOthers>>

\* if self.running: await asyncio.sleep(...), after a run that returned and
\* in the except clause.
AfterRun ==
    /\ loopPc \in {"after", "except"}
    /\ loopPc' = IF loopPc = "after" THEN OnReturn(loopRunning) ELSE OnException(loopRunning)
    /\ UNCHANGED <<loopRunning, runs, flagSetAt, loopOthers>>

\* asyncio.sleep returns.
SleepEnds ==
    /\ loopPc \in {"sleep", "retry"}
    /\ loopPc' = "test"
    /\ UNCHANGED <<loopRunning, runs, flagSetAt, loopOthers>>

\* ScraperRunner.signal_handler, on SIGINT or SIGTERM: self.running = False.
\* It runs wherever the loop is.
LoopSignal ==
    /\ loopPc # "exited"
    /\ loopRunning
    /\ loopRunning' = FALSE
    /\ flagSetAt' = [pc |-> loopPc, runs |-> Len(runs)]
    /\ UNCHANGED <<loopPc, runs, loopOthers>>

LoopNext ==
    \/ LoopTest
    \/ StartRun
    \/ RunReturns
    \/ RunRaises
    \/ AfterRun
    \/ SleepEnds
    \/ LoopSignal

(***************************************************************************)
(* Specifications                                                          *)
(***************************************************************************)

\* Bounds on what the news API and the reviews page hold for one entity.
MaxArticles == 2
MaxReviews == 2

\* The parts of the program a specification leaves alone.
RLQuiet ==
    /\ now = Epoch
    /\ requests_per_second = 1
    /\ last_request_time = 0
    /\ rlPc = <<>> /\ wakeAt = <<>> /\ callsMade = <<>>
    /\ lastReturn = <<>> /\ prevReturn = <<>>

EnvQuiet ==
    /\ edgar = <<>> /\ newsapi = <<>> /\ glassdoor = <<>>
    /\ api_key = FALSE
    /\ responses = {}

JobsQuiet ==
    /\ companies = <<>>
    /\ schedPc = "idle"
    /\ semaphore = SemaphoreValue
    /\ jobPc = <<>> /\ company_data = <<>> /\ filings = <<>> /\ idx = <<>>
    /\ results = <<>> /\ successful_results = <<>> /\ errorLog = <<>>
    /\ running = TRUE /\ metrics = NewMetrics
    /\ invoked = <<>> /\ fetched = <<>> /\ saveError = <<>>
    /\ requested = <<>> /\ failedCalls = <<>> /\ trace = <<>> /\ outOfOrder = FALSE

MonQuiet ==
    /\ monLog = <<>> /\ report = NoReport

CtxQuiet ==
    /\ ctxPc = <<>> /\ session = <<>> /\ pool = <<>>
    /\ bodyOutcome = <<>> /\ closes = <<>>

NumQuiet ==
    /\ value_text = <<>> /\ numPc = "idle" /\ extracted = NoAmount

SentQuiet ==
    /\ sentText = <<>> /\ sentPc = "idle" /\ sentiment = NoAmount

OwnQuiet ==
    /\ heap = <<>> /\ aggregate = <<>> /\ ownPc = <<>> /\ handed = <<>>

LimQuiet ==
    /\ limNow = Epoch /\ limiterObjects = <<>> /\ limTask = <<>>

RevQuiet ==
    /\ revPage = <<>> /\ revPc = "none" /\ revResult = NoResult

FinQuiet ==
    /\ finDoc = <<>> /\ finFilingDate = None /\ finPc = "none"
    /\ finStrategies = <<>> /\ finMetrics = <<>>

LoopQuiet ==
    /\ loopRunning = TRUE /\ loopPc = "none" /\ runs = <<>> /\ flagSetAt = [pending |-> TRUE]

AuxQuiet == MonQuiet /\ CtxQuiet /\ NumQuiet /\ SentQuiet /\ OwnQuiet /\ LimQuiet /\ RevQuiet /\ FinQuiet /\ LoopQuiet

DBQuiet ==
    /\ tx = <<>> /\ savesStarted = 0 /\ committed = <<>>
    /\ schema = FullSchema /\ lastCreate = NoCreate

\* SpecRL: tasks calling wait_if_needed on one RateLimiter.
RLInit == RLStart /\ EnvQuiet /\ store = InitStore /\ JobsQuiet /\ DBQuiet /\ AuxQuiet

SpecRL == RLInit /\ [][RLNext]_vars

\* SpecRLFair: the same with time passing and the event loop running every
\* task whose sleep is done.
SpecRLFair ==
    /\ SpecRL
    /\ WF_vars(Tick)
    /\ \A t \in Tasks : WF_vars(WaitIfNeeded_Wake(t))

\* The batches of up to n entities, each well formed or with an unpadded key.
Batches(n) ==
    UNION { {b \in [1..k -> {GoodEntity(i) : i \in 1..k} \cup {ShortCikEntity(i) : i \in 1..k}] :
                \A i \in 1..k : b[i] \in {GoodEntity(i), ShortCikEntity(i)}} : k \in 0..n }

\* A batch whose sources hold nothing and always answer (as with the
\* adapters mocked to return []).
BatchScenario ==
    \E batch \in Batches(NumCompanies) :
        /\ JobStart(batch)
        /\ edgar = [j \in 1..Len(batch) |-> <<>>]
        /\ newsapi = [j \in 1..Len(batch) |-> <<>>]
        /\ glassdoor = [j \in 1..Len(batch) |-> <<>>]
        /\ api_key = TRUE
        /\ responses = {"200"}

\* The candidates used where the scenario is about another source.
OneArticle == CHOOSE c \in ArticleCandidates : c.url = Urls[1]
OneReview == CHOOSE c \in ReviewCandidates : c.rating = 4

\* One entity whose filings feed varies.
SingleScenario ==
    \E e \in {GoodEntity(1), ShortCikEntity(1), NoNameEntity(1), AlphaCikEntity(1)},
       feed \in SeqsUpTo(FilingPool, MaxFilings) :
        /\ JobStart(<<e>>)
        /\ edgar = <<feed>>
        /\ newsapi = << <<OneArticle>> >>
        /\ glassdoor = << <<OneReview>> >>
        /\ api_key \in BOOLEAN
        /\ responses = Responses

\* One entity without filings whose news answer or reviews page varies.
SourcesScenario ==
    \E data \in SeqsUpTo(ArticleCandidates, MaxArticles),
       page \in SeqsUpTo(ReviewCandidates, MaxReviews) :
        /\ data = <<>> \/ page = <<>>
        /\ JobStart(<<GoodEntity(1)>>)
        /\ edgar = << <<>> >>
        /\ newsapi = <<data>>
        /\ glassdoor = <<page>>
        /\ api_key \in BOOLEAN
        /\ responses = Responses

\* Bound of the exploration: the entries of the long feed beyond the five
\* that scrape_company_data takes.
ExtraFilings == 1

\* A feed of more than five entries: quarterly and annual filings in turn.
LongFeed ==
    [i \in 1..(FilingsLimit + ExtraFilings) |->
        CHOOSE f \in FilingPool : f.link = (IF i % 2 = 1 THEN "f1" ELSE "f2")]

\* One entity whose filings feed is longer than the limit.
LongFeedScenario ==
    /\ JobStart(<<GoodEntity(1)>>)
    /\ edgar = <<LongFeed>>
    /\ newsapi = << <<>> >>
    /\ glassdoor = << <<>> >>
    /\ api_key = TRUE
    /\ responses = Responses

\* Spec: one call of scrape_multiple_companies.
Init ==
    /\ RLQuiet
    /\ DBQuiet
    /\ AuxQuiet
    /\ store = InitStore
    /\ BatchScenario \/ SingleScenario \/ SourcesScenario \/ LongFeedScenario

Next ==
    \/ \E j \in Jobs : StartJob(j)
    \/ \E j \in Jobs : GetCompanyFilings(j)
    \/ \E j \in Jobs : GetFilingContent(j)
    \/ \E j \in Jobs : GetCompanyNews(j)
    \/ \E j \in Jobs : GetCompanyReviews(j)
    \/ \E j \in Jobs : SaveCompanyData(j)
    \/ GatherReturns
    \/ SignalHandlerRunner
    \/ SignalHandlerExit

Spec == Init /\ [][Next]_vars

\* The steps of the task of job j.
JobStep(j) ==
    \/ StartJob(j)
    \/ GetCompanyFilings(j)
    \/ GetFilingContent(j)
    \/ GetCompanyNews(j)
    \/ GetCompanyReviews(j)
    \/ SaveCompanyData(j)

\* SpecFair: Spec on an event loop that keeps running.  A task that can
\* take its next step takes it: a task waiting for the semaphore is woken
\* when a slot is free, every request answers or fails (each has a total timeout
\* of 30 or 60 seconds), every save returns or raises, and gather
\* returns once its tasks are done.  Signals are not bound to arrive.
SpecFair ==
    /\ Spec
    /\ \A j \in 1..NumCompanies : WF_vars(j \in Jobs /\ JobStep(j))
    /\ WF_vars(GatherReturns)

\* SpecDB: save_company_data calls on the connections of the pool.
DBInit == RLQuiet /\ EnvQuiet /\ JobsQuiet /\ DBStart /\ AuxQuiet

SpecDB == DBInit /\ [][DBNext]_vars

\* The job variables other than metrics, as in JobsQuiet.
JobsQuietNotMetrics ==
    /\ companies = <<>>
    /\ schedPc = "idle"
    /\ semaphore = SemaphoreValue
    /\ jobPc = <<>> /\ company_data = <<>> /\ filings = <<>> /\ idx = <<>>
    /\ results = <<>> /\ successful_results = <<>> /\ errorLog = <<>>
    /\ running = TRUE
    /\ invoked = <<>> /\ fetched = <<>> /\ saveError = <<>>
    /\ requested = <<>> /\ failedCalls = <<>> /\ trace = <<>> /\ outOfOrder = FALSE

\* SpecMon: calls on one MonitoringSystem.
MonInit ==
    /\ RLQuiet /\ EnvQuiet /\ store = InitStore /\ DBQuiet /\ JobsQuietNotMetrics
    /\ CtxQuiet /\ NumQuiet /\ SentQuiet
    /\ OwnQuiet
    /\ LimQuiet
    /\ RevQuiet
    /\ FinQuiet
    /\ LoopQuiet
    /\ MonStart

SpecMon == MonInit /\ [][MonNext]_vars

\* SpecNum: one call of _extract_numeric_value on a text.
NumInit ==
    /\ RLQuiet /\ EnvQuiet /\ store = InitStore /\ DBQuiet /\ JobsQuiet /\ MonQuiet
    /\ CtxQuiet /\ SentQuiet
    /\ OwnQuiet
    /\ LimQuiet
    /\ RevQuiet
    /\ FinQuiet
    /\ LoopQuiet
    /\ NumStart

SpecNum == NumInit /\ [][NumNext]_vars

\* SpecSent: one call of _calculate_sentiment on a text.
SentInit ==
    /\ RLQuiet /\ EnvQuiet /\ store = InitStore /\ DBQuiet /\ JobsQuiet /\ MonQuiet
    /\ CtxQuiet /\ NumQuiet
    /\ OwnQuiet
    /\ LimQuiet
    /\ RevQuiet
    /\ FinQuiet
    /\ LoopQuiet
    /\ SentStart

SpecSent == SentInit /\ [][SentNext]_vars

\* SpecOwn: jobs building their CompanyData side by side.
OwnInit ==
    /\ RLQuiet /\ EnvQuiet /\ store = InitStore /\ DBQuiet /\ JobsQuiet
    /\ MonQuiet /\ CtxQuiet /\ NumQuiet /\ SentQuiet
    /\ LimQuiet
    /\ RevQuiet
    /\ FinQuiet
    /\ LoopQuiet
    /\ OwnStart

SpecOwn == OwnInit /\ [][OwnNext]_vars

\* SpecLim: tasks calling wait_if_needed on the limiters of rate_limiters.
LimInit ==
    /\ RLQuiet /\ EnvQuiet /\ store = InitStore /\ DBQuiet /\ JobsQuiet
    /\ MonQuiet /\ CtxQuiet /\ NumQuiet /\ SentQuiet /\ OwnQuiet
    /\ RevQuiet
    /\ FinQuiet
    /\ LoopQuiet
    /\ LimStart

SpecLim == LimInit /\ [][LimNext]_vars

\* SpecRev: calls of _parse_reviews_page on pages of review elements.
RevInit ==
    /\ RLQuiet /\ EnvQuiet /\ store = InitStore /\ DBQuiet /\ JobsQuiet
    /\ MonQuiet /\ CtxQuiet /\ NumQuiet /\ SentQuiet /\ OwnQuiet /\ LimQuiet
    /\ FinQuiet
    /\ LoopQuiet
    /\ RevStart

SpecRev == RevInit /\ [][RevNext]_vars

\* SpecFin: calls of extract_financial_metrics on filing contents.
FinInit ==
    /\ RLQuiet /\ EnvQuiet /\ store = InitStore /\ DBQuiet /\ JobsQuiet
    /\ MonQuiet /\ CtxQuiet /\ NumQuiet /\ SentQuiet /\ OwnQuiet /\ LimQuiet /\ RevQuiet
    /\ LoopQuiet
    /\ FinStart

SpecFin == FinInit /\ [][FinNext]_vars

\* SpecLoop: one process in continuous mode.
LoopInit ==
    /\ RLQuiet /\ EnvQuiet /\ store = InitStore /\ DBQuiet /\ JobsQuiet
    /\ MonQuiet /\ CtxQuiet /\ NumQuiet /\ SentQuiet /\ OwnQuiet /\ LimQuiet /\ RevQuiet /\ FinQuiet
    /\ LoopStart

SpecLoop == LoopInit /\ [][LoopNext]_vars

\* SpecCtx: CompanyDataScraper objects entered and exited.
CtxInit ==
    /\ RLQuiet /\ EnvQuiet /\ store = InitStore /\ DBQuiet /\ JobsQuiet /\ MonQuiet
    /\ NumQuiet /\ SentQuiet
    /\ OwnQuiet
    /\ LimQuiet
    /\ RevQuiet
    /\ FinQuiet
    /\ LoopQuiet
    /\ CtxStart

SpecCtx == CtxInit /\ [][CtxNext]_vars

(***************************************************************************)
(* Properties of the RateLimiter (under SpecRL)                            *)
(***************************************************************************)

\* C1: on one RateLimiter shared by concurrent tasks, the times at which any
\* two calls of wait_if_needed return differ by at least 1/r: no two tasks
\* pass the gate within the same interval.
C1_AnyTwoPermitsOneIntervalApart ==
    \A t, u \in Tasks :
        /\ (t # u /\ lastReturn[t] # 0 /\ lastReturn[u] # 0)
              => \/ lastReturn[t] - lastReturn[u] >= MinInterval(requests_per_second)
                 \/ lastReturn[u] - lastReturn[t] >= MinInterval(requests_per_second)
        /\ prevReturn[t] # 0
              => lastReturn[t] - prevReturn[t] >= MinInterval(requests_per_second)

\* C2: when one caller makes two consecutive calls of wait_if_needed, the
\* second returns no earlier than 1/r after the time the first recorded.
C2_ConsecutiveCallsOneIntervalApart ==
    \A t \in Tasks :
        prevReturn[t] # 0
            => lastReturn[t] >= prevReturn[t] + MinInterval(requests_per_second)

\* A task's second call had to sleep and returned exactly one interval (of
\* more than one tick) after its first.
C2_Witness ==
    \E t \in Tasks :
        /\ prevReturn[t] # 0
        /\ MinInterval(requests_per_second) > 1
        /\ rlPc[t] = "idle"
        /\ lastReturn[t] = prevReturn[t] + MinInterval(requests_per_second)

\* The last instant of the clock that is explored.
Horizon == Epoch + MaxElapsed

\* C21: every call of wait_if_needed returns after a finite delay, whatever
\* the rate and whatever the other callers do: the sleep of a suspended task
\* is due at most one interval after the latest permit, and a task whose
\* sleep is due within the explored time is eventually back in its caller.
C21_EveryCallReturns ==
    /\ \A t \in Tasks :
          (rlPc[t] = "sleeping" /\ wakeAt[t] <= Horizon)
              ~> (rlPc[t] = "idle" /\ lastReturn[t] = now)
    /\ [](\A t \in Tasks :
            rlPc[t] = "sleeping"
                => wakeAt[t] <= last_request_time + MinInterval(requests_per_second))

\* Both tasks are suspended in wait_if_needed at the same time.
C21_Witness ==
    /\ \A t \in Tasks : rlPc[t] = "sleeping"
    /\ \A t \in Tasks : wakeAt[t] > now /\ wakeAt[t] <= Horizon

(***************************************************************************)
(* Properties of the MonitoringSystem (under SpecMon)                      *)
(***************************************************************************)

\* The calls of the log that satisfy Test.
CountCalls(log, Test(_)) == Cardinality({i \in 1..Len(log) : Test(log[i])})

RECURSIVE SumCounts(_)
\* The sum of the counts passed to record_data_points.
SumCounts(log) ==
    IF log = <<>> THEN 0
    ELSE (IF Head(log).call = "record_data_points" THEN Head(log).count ELSE 0)
            + SumCounts(Tail(log))

IsRequest(c) == c.call = "record_request"
IsSuccess(c) == c.call = "record_request" /\ c.success
IsRateLimit(c) == c.call = "record_rate_limit"

Counters == {"total_requests", "successful_requests", "failed_requests",
             "rate_limit_hits", "data_points_collected"}

\* What holds of the counters and of get_metrics in every state.
CountersMatchLog ==
    /\ metrics.total_requests = CountCalls(monLog, IsRequest)
    /\ metrics.successful_requests = CountCalls(monLog, IsSuccess)
    /\ metrics.total_requests = metrics.successful_requests + metrics.failed_requests
    /\ metrics.rate_limit_hits = CountCalls(monLog, IsRateLimit)
    /\ metrics.data_points_collected = SumCounts(monLog)
    /\ report # NoReport =>
          /\ report.exc = None
          /\ report.value.success_rate =
                IF report.value.metrics.total_requests > 0
                THEN <<report.value.metrics.successful_requests,
                       report.value.metrics.total_requests>>
                ELSE Zero

\* C22 as stated: after any sequence of record_* calls total_requests is the
\* number of record_request calls and equals successful_requests +
\* failed_requests, data_points_collected is the sum of the recorded counts,
\* no call makes any counter smaller, and get_metrics raises nothing and
\* reports success_rate successful/total when total > 0 and 0 when total = 0.
C22_CountersAddUpAndNeverDecrease ==
    /\ []CountersMatchLog
    /\ [][\A k \in Counters : metrics'[k] >= metrics[k]]_vars

\* C22 as amended: the same, except that data_points_collected is
\* non-decreasing only over calls whose count is not negative: a
\* record_data_points call with a negative count makes it smaller.
C22_CountersAddUp ==
    /\ []CountersMatchLog
    /\ [][/\ \A k \in Counters \ {"data_points_collected"} : metrics'[k] >= metrics[k]
          /\ metrics'.data_points_collected < metrics.data_points_collected
                => /\ Len(monLog') = Len(monLog) + 1
                   /\ monLog'[Len(monLog')].call = "record_data_points"
                   /\ monLog'[Len(monLog')].count < 0]_vars

\* get_metrics has reported 1/2 after one successful and one failed request
\* and two record_data_points calls with positive counts.
C22_Witness ==
    /\ report # NoReport
    /\ report.value.success_rate = <<1, 2>>
    /\ report.value.metrics = metrics
    /\ metrics.failed_requests = 1
    /\ metrics.data_points_collected = 2 * MaxCount
    /\ Len(monLog) = 4

(***************************************************************************)
(* Properties of the steps of one job (under Spec)                         *)
(***************************************************************************)

\* The positions in the history t of the events op of an adapter.
EventsOf(t, op, adapter) == {i \in 1..Len(t) : t[i].op = op /\ t[i].adapter = adapter}
Saves(t) == {i \in 1..Len(t) : t[i].op = "save_company_data"}

\* Every adapter of the set has been called and has returned before
\* position b of t, and does nothing from b on.
FinishedBefore(t, adapters, b) ==
    /\ \A i \in 1..Len(t) : t[i].adapter \in adapters => i < b
    /\ \A a \in adapters \ {"content"} : EventsOf(t, "return", a) # {}
    /\ \A a \in adapters : \A c \in EventsOf(t, "call", a) :
          \E r \in EventsOf(t, "return", a) : c < r /\ t[r].item = t[c].item

\* C26: in one job the steps come in the order filings, news, reviews,
\* save: get_company_news is not called before the filings list and every
\* selected filing have been fetched, get_company_reviews not before
\* get_company_news has returned, and save_company_data only after the
\* three adapters have been called and have returned.
C26_StepsComeInOrder ==
    \A j \in Jobs :
        LET t == trace[j]
        IN /\ \A b \in EventsOf(t, "call", "news") :
                 /\ FinishedBefore(t, {"filings", "content"}, b)
                 /\ Cardinality(EventsOf(t, "return", "content"))
                        = Min(FilingsLimit, Len(filings[j]))
           /\ \A b \in EventsOf(t, "call", "reviews") :
                 FinishedBefore(t, {"filings", "content", "news"}, b)
           /\ \A b \in Saves(t) :
                 FinishedBefore(t, {"filings", "content", "news", "reviews"}, b)

\* A job has fetched a filing, the news and the reviews, and has saved.
C26_Witness ==
    \E j \in Jobs :
        /\ jobPc[j] = "done"
        /\ EventsOf(trace[j], "request", "content") # {}
        /\ EventsOf(trace[j], "request", "news") # {}
        /\ EventsOf(trace[j], "request", "reviews") # {}
        /\ Saves(trace[j]) # {}

\* The positions in the history t of the events op.
Ops(t, op) == {i \in 1..Len(t) : t[i].op = op}

\* C27: every request an adapter sends comes right after a completed
\* wait_if_needed, in the same task, on the limiter of the adapter's service
\* (sec_edgar for the filings list and for each filing content, google_news
\* for the news, glassdoor for the reviews); there is one wait_if_needed per
\* request and no request without one.
C27_EveryRequestFollowsItsLimiter ==
    \A j \in Jobs :
        LET t == trace[j]
        IN /\ \A i \in Ops(t, "request") :
                 /\ i > 1
                 /\ t[i - 1].op = "wait_if_needed"
                 /\ t[i - 1].adapter = t[i].adapter /\ t[i - 1].item = t[i].item
                 /\ t[i].adapter \in {"filings", "content"} => t[i - 1].limiter = "sec_edgar"
                 /\ t[i].adapter = "news" => t[i - 1].limiter = "google_news"
                 /\ t[i].adapter = "reviews" => t[i - 1].limiter = "glassdoor"
           /\ \A i \in Ops(t, "wait_if_needed") : i < Len(t) /\ t[i + 1].op = "request"
           /\ Cardinality(Ops(t, "wait_if_needed")) = Cardinality(Ops(t, "request"))
           /\ \A a \in Adapters : Cardinality(EventsOf(t, "request", a)) = requested[j][a]

\* A job has sent a request to each of the three services: the filings list
\* and one filing content, the news and the reviews.
C27_Witness ==
    \E j \in Jobs :
        /\ jobPc[j] = "save"
        /\ \A a \in Adapters : requested[j][a] = 1
        /\ Cardinality(Ops(trace[j], "wait_if_needed")) = 4

\* C28: nothing is tried again, whatever fails: the job of every entity is
\* started at most once, and exactly once in a run that has returned; within
\* a job the filings list, the news and the reviews are each requested at
\* most once, the content of each selected filing at most once, and
\* save_company_data is called at most once.
C28_NothingIsRetried ==
    \A j \in Jobs :
        LET t == trace[j]
        IN /\ Cardinality(Ops(t, "start")) <= 1
           /\ schedPc = "returned" => Cardinality(Ops(t, "start")) = 1
           /\ \A a \in {"filings", "news", "reviews"} :
                 /\ Cardinality(EventsOf(t, "call", a)) <= 1
                 /\ Cardinality(EventsOf(t, "request", a)) <= 1
           /\ \A k \in 1..Len(filings[j]) :
                 Cardinality({i \in EventsOf(t, "request", "content") : t[i].item = k}) <= 1
           /\ Cardinality(Saves(t)) <= 1

\* A run has returned in which a job saw its filings request, its news
\* request and its reviews request fail and then its save raise.
C28_Witness ==
    /\ schedPc = "returned"
    /\ \E j \in Jobs :
          /\ \A a \in {"filings", "news", "reviews"} : failedCalls[j][a] = 1
          /\ saveError[j]
          /\ jobPc[j] = "failed"

\* The content requests of a history, in order.
ContentRequests(t) == SelectSeq(t, LAMBDA e : e.op = "request" /\ e.adapter = "content")

RECURSIVE MetricsOfFilings(_, _)
\* What the filings of the list yield when each content arrives, in order.
MetricsOfFilings(fs, cik) ==
    IF fs = <<>> THEN <<>>
    ELSE SetCik(ExtractFinancialMetrics(Head(fs).doc, First10(Head(fs).updated)), cik)
             \o MetricsOfFilings(Tail(fs), cik)

RECURSIVE IsSubsequence(_, _)
\* a is b with some elements left out.
IsSubsequence(a, b) ==
    IF a = <<>> THEN TRUE
    ELSE IF b = <<>> THEN FALSE
    ELSE IF Head(a) = Head(b) /\ IsSubsequence(Tail(a), Tail(b)) THEN TRUE
    ELSE IsSubsequence(a, Tail(b))

\* The first n entries of the filings list of job j.
FirstFilings(j, n) == SubSeq(filings[j], 1, Min(n, Len(filings[j])))

FilingsAreBounded ==
    \A j \in Jobs :
        LET t == trace[j]
            contents == ContentRequests(t)
        IN /\ Len(contents) <= FilingsLimit
           /\ \A n \in 1..Len(contents) : contents[n].item = n
           /\ Cardinality({i \in Ops(t, "request") : t[i].adapter \in {"filings", "content"}})
                 <= FilingsLimit + 1
           /\ requested[j]["filings"] + requested[j]["content"] <= FilingsLimit + 1
           /\ \A i \in 1..Len(filings[j]) :
                 Len(ExtractFinancialMetrics(filings[j][i].doc, First10(filings[j][i].updated))) <= 1
           /\ IsCompanyData(company_data[j]) =>
                 /\ Len(company_data[j].financial_metrics)
                       <= requested[j]["content"] - failedCalls[j]["content"]
                 /\ IsSubsequence(company_data[j].financial_metrics,
                                   MetricsOfFilings(FirstFilings(j, Len(contents)), companies[j].cik))
           /\ jobPc[j] \in {"news", "reviews", "save", "done"} =>
                 Len(contents) = Min(FilingsLimit, Len(filings[j]))

\* A content fetch of job j that fails adds no record and the loop goes on
\* with the next filing, or with the news after the last one.
FailedFetchIsSkipped ==
    \A j \in Jobs :
        failedCalls'[j]["content"] > failedCalls[j]["content"] =>
            /\ company_data'[j].financial_metrics = company_data[j].financial_metrics
            /\ idx'[j] = idx[j] + 1
            /\ jobPc'[j] = IF idx[j] < Min(FilingsLimit, Len(filings[j])) THEN "content" ELSE "news"

\* C29: a job fetches the content of at most 5 filings, the first 5 of the
\* list in its order, so it sends at most 6 requests to sec_edgar and gets
\* at most one FinancialMetrics per filing fetched; a filing whose content is
\* empty or whose fetch fails yields none and the remaining filings are
\* still fetched.
C29_AtMostFiveFilingsInOrder == []FilingsAreBounded /\ [][FailedFetchIsSkipped]_vars

\* A job whose list has more than 5 filings is done: it fetched 5, two of
\* the fetches failed and it holds 3 records.
C29_Witness ==
    \E j \in Jobs :
        /\ Len(filings[j]) > FilingsLimit
        /\ jobPc[j] = "done"
        /\ requested[j]["content"] = FilingsLimit
        /\ failedCalls[j]["content"] = 2
        /\ Len(company_data[j].financial_metrics) = 3

(***************************************************************************)
(* Properties of _extract_numeric_value (under SpecNum)                    *)
(***************************************************************************)

\* m is written as a signed decimal number: an optional "-", digits, and
\* optionally a point followed by digits.
IsNumberText(m) ==
    /\ m # <<>>
    /\ LET body == IF m[1] = "-" THEN Tail(m) ELSE m
           dots == {i \in 1..Len(body) : body[i] = "."}
       IN /\ body # <<>>
          /\ \A i \in 1..Len(body) : body[i] \in Digits \cup {"."}
          /\ Cardinality(dots) <= 1
          /\ body[1] # "." /\ body[Len(body)] # "."

\* The currency symbols among the characters enumerated.
CurrencySymbols == {"$", "€"}

\* The text without thousands separators, currency symbols and whitespace,
\* and with every "(...)" turned into "-...".
Cleaned(t) ==
    ParensToMinus(SelectSeq(t, LAMBDA c : c \notin ({","} \cup CurrencySymbols \cup Whitespace)))

\* The number written in the text between positions p and q is the first
\* one: none starts before p, and none starting at p is longer.
IsFirstNumber(t, p, q) ==
    /\ IsNumberText(SubSeq(t, p, q))
    /\ \A r \in 1..Len(t), e \in 1..Len(t) :
          (r <= e /\ IsNumberText(SubSeq(t, r, e))) => (r > p \/ (r = p /\ e <= q))

\* C24: _extract_numeric_value removes thousands separators, currency
\* symbols and whitespace, reads a parenthesized value as negative, and
\* returns the first signed decimal number of what is left, or None when the
\* text has no digit; the four examples of the test give 1000000.0,
\* -500000.0, 1.5 and None.
C24_ExtractsFirstSignedNumber ==
    numPc = "returned" =>
        /\ value_text = ExampleDollars => extracted = Some(<<1000000, 0>>)
        /\ value_text = ExampleParens => extracted = Some(<<0 - 500000, 0>>)
        /\ value_text = ExampleMillion => extracted = Some(<<15, 1>>)
        /\ value_text = ExampleNoNumber => extracted = NoAmount
        /\ (extracted = NoAmount) = (\A i \in 1..Len(value_text) : value_text[i] \notin Digits)
        /\ extracted # NoAmount =>
              \E p, q \in 1..Len(Cleaned(value_text)) :
                  /\ p <= q
                  /\ IsFirstNumber(Cleaned(value_text), p, q)
                  /\ extracted = Some(ToFloat(SubSeq(Cleaned(value_text), p, q)))

(***************************************************************************)
(* Properties of _calculate_sentiment (under SpecSent)                     *)
(***************************************************************************)

\* The keywords of the set that match the text.
Matches(t, words) == {w \in words : \E i \in 1..Len(t) : w \in KeywordsIn(t[i])}

\* The text is empty or made of whitespace only.
IsBlank(t) == \A i \in 1..Len(t) : t[i] \in Whitespace

\* score, in thousandths, is the quotient a / b clamped to [-1, 1].
IsClampedQuotient(score, a, b) ==
    IF a >= b THEN score = 1000
    ELSE IF a <= 0 - b THEN score = 0 - 1000
    ELSE score * b <= 1000 * a /\ 1000 * a < (score + 1) * b

\* C25: _calculate_sentiment returns None for an empty or whitespace-only
\* text (never 0), and otherwise (positive keywords that match - negative
\* keywords that match) / number of words, clamped to [-1, 1]: the score is
\* in [-1, 1], > 0 when only positive keywords match and < 0 when only
\* negative keywords match.
C25_SentimentIsClampedKeywordBalance ==
    sentPc = "returned" =>
        LET positive == Cardinality(Matches(sentText, PositiveWords))
            negative == Cardinality(Matches(sentText, NegativeWords))
        IN /\ (sentiment = NoAmount) = IsBlank(sentText)
           /\ sentiment # NoAmount =>
                 /\ IsClampedQuotient(sentiment[1], positive - negative, WordCount(sentText))
                 /\ sentiment[1] >= 0 - 1000 /\ sentiment[1] <= 1000
                 /\ (positive > 0 /\ negative = 0) => sentiment[1] > 0
                 /\ (negative > 0 /\ positive = 0) => sentiment[1] < 0
           /\ sentText = PositiveText => sentiment # NoAmount /\ sentiment[1] > 0
           /\ sentText = NegativeText => sentiment # NoAmount /\ sentiment[1] < 0
           /\ sentText = NeutralText => sentiment = Some(0)

\* A call has returned -0.5 for "bad the".
C25_Witness ==
    /\ sentPc = "returned"
    /\ sentText = <<"bad", " ", "the">>
    /\ sentiment = Some(0 - 500)

(***************************************************************************)
(* Properties of the context manager (under SpecCtx)                       *)
(***************************************************************************)

\* C23: a context that was entered and has exited, whether its body returned
\* or raised, has closed the session and then the pool, each once; nothing
\* is closed while the body has not finished, and the pool never before the
\* session.
C23_ExitClosesSessionThenPool ==
    \A c \in Scrapers :
        /\ ctxPc[c] = "exited" =>
              /\ closes[c] = <<"session", "pool">>
              /\ session[c] = "closed" /\ pool[c] = "closed"
        /\ (closes[c] # <<>> \/ session[c] = "closed" \/ pool[c] = "closed")
              => bodyOutcome[c] # None
        /\ pool[c] = "closed" => session[c] = "closed"
        /\ Len(closes[c]) <= 2

\* One context has exited after its body raised, another after its body
\* returned.
C23_Witness ==
    \E c, d \in Scrapers :
        /\ ctxPc[c] = "exited" /\ bodyOutcome[c] = "raised"
        /\ ctxPc[d] = "exited" /\ bodyOutcome[d] = "returned"

(***************************************************************************)
(* Properties of scrape_multiple_companies and its jobs (under Spec)       *)
(***************************************************************************)

RunningJobs == {j \in Jobs : IsRunning(jobPc[j])}
QueuedJobs == {j \in Jobs : jobPc[j] = "queued"}
FailedJobs == {j \in Jobs : jobPc[j] = "failed"}

\* The positions of the returned list that hold the record of job j's entity.
RecordsOf(j) ==
    {i \in 1..Len(successful_results) :
        /\ IsCompanyData(successful_results[i])
        /\ successful_results[i].company_name = companies[j].name
        /\ successful_results[i].cik = companies[j].cik}

\* C3: at any time at most 3 jobs have started and not yet finished, so a
\* batch of more than 3 entities never runs all at once.
C3_AtMostThreeJobsRunning ==
    /\ Cardinality(RunningJobs) <= SemaphoreValue
    /\ Len(companies) > SemaphoreValue => RunningJobs # Jobs

\* Three jobs are running while another waits for a slot.
C3_Witness ==
    /\ Cardinality(RunningJobs) = SemaphoreValue
    /\ QueuedJobs # {}

\* C4: a job that raises takes no other job with it: the scheduler leaves
\* asyncio.gather only when every job has finished, a finished job (failed or
\* done) holds no slot, and a queued job can start whenever fewer than 3 run.
C4_FailureIsolatedAndAllJobsAwaited ==
    /\ schedPc \in {"returned", "raised"} => \A j \in Jobs : IsTerminal(jobPc[j])
    /\ semaphore = SemaphoreValue - Cardinality(RunningJobs)
    /\ (schedPc = "gather" /\ QueuedJobs # {} /\ Cardinality(RunningJobs) < SemaphoreValue)
          => CanAcquire(semaphore)

\* The scheduler has returned from a full batch whose first job failed and
\* whose last job, queued behind it, completed.
C4_Witness ==
    /\ schedPc = "returned"
    /\ Len(companies) = NumCompanies
    /\ jobPc[1] = "failed"
    /\ jobPc[NumCompanies] = "done"

\* C5: whichever jobs fail, scrape_multiple_companies does not raise and
\* returns exactly one record for every entity whose job did not fail and
\* none for the others.
C5_OneRecordPerSuccessfulEntity ==
    /\ schedPc # "raised"
    /\ schedPc = "returned" =>
          /\ Len(successful_results) = Len(companies) - Cardinality(FailedJobs)
          /\ \A j \in Jobs :
                Cardinality(RecordsOf(j)) = IF j \in FailedJobs THEN 0 ELSE 1

\* A full batch in which exactly job 3 failed has returned.
C5_Witness ==
    /\ schedPc = "returned"
    /\ Len(companies) = NumCompanies
    /\ FailedJobs = {3}
    /\ Len(successful_results) = NumCompanies - 1

\* An entry of the returned value that names a failed entity and its error.
IsFailureEntry(x) == "error" \in DOMAIN x

C7_SourceFailuresAreNotFatal ==
    \A j \in Jobs :
        ("filings" \in invoked[j] /\ IsTerminal(jobPc[j]) /\ ~saveError[j]) =>
            /\ {"news", "reviews"} \subseteq invoked[j]
            /\ jobPc[j] = "done"
            /\ results[j].financial_metrics = fetched[j].financial_metrics
            /\ results[j].news_articles = fetched[j].news_articles
            /\ results[j].employee_reviews = fetched[j].employee_reviews

\* C8: when save_company_data fails the job ends Failed with the persistence
\* error as its result, the store has no row of it, its aggregate is not in
\* the returned list, and every job that ended Done is in the returned list.
C8_SaveFailureFailsThatJobOnly ==
    \A j \in Jobs :
        saveError[j] =>
            /\ jobPc[j] = "failed"
            /\ IsException(results[j]) /\ results[j].exc = "PostgresError"
            /\ \A r \in store.companies : r.cik # companies[j].cik
            /\ schedPc = "returned" =>
                  /\ RecordsOf(j) = {}
                  /\ \A k \in Jobs : jobPc[k] = "done" => RecordsOf(k) # {}

\* The scheduler has returned from a batch in which a save failed and
\* another job completed.
C8_Witness ==
    /\ schedPc = "returned"
    /\ \E j, k \in Jobs : saveError[j] /\ jobPc[k] = "done"

\* The keys handed to validation: those of the submitted entities, and keys
\* of 9 and of 11 digits.
KeySamples ==
    {GoodEntity(1).cik, ShortCikEntity(1).cik, AlphaCikEntity(1).cik,
     <<"1", "2", "3", "4", "5", "6", "7", "8", "9">>,
     <<"1", "2", "3", "4", "5", "6", "7", "8", "9", "0", "1">>}

IsTenDigits(v) == Len(v) = CikLength /\ IsDigit(v)

\* C14: a key that is not exactly 10 numeric characters is rejected with a
\* validation error, by FinancialMetrics and when the CompanyData of a job is
\* built, and an accepted key is kept as it was given.
C14_OnlyTenDigitKeysAreAccepted ==
    /\ \A v \in KeySamples :
          IF IsTenDigits(v) THEN ValidateCik(v) = Ok(v)
          ELSE ValidateCik(v) = Threw("ValidationError")
    /\ \A j \in Jobs :
          /\ (jobPc[j] # "queued" /\ ~IsTenDigits(companies[j].cik))
                => (company_data[j] = NoCompanyData /\ results[j] = [exc |-> "ValidationError"])
          /\ company_data[j] # NoCompanyData => company_data[j].cik = companies[j].cik

\* A stop signal has been handled: ScraperRunner.running is False, or
\* sys.exit has ended the run.
StopSignalled == ~running \/ schedPc = "exited"

\* C15: once a stop signal has been received no queued job starts, and no job
\* in flight is aborted: each runs on to Done or Failed.
C15_StopSignalLetsJobsFinish ==
    [][/\ StopSignalled => \A j \in Jobs : jobPc[j] = "queued" => jobPc'[j] = "queued"
       /\ \A j \in Jobs : jobPc'[j] # "cancelled"]_vars

\* C16: on a response other than HTTP 200, a transport error or a timeout
\* every adapter returns its empty result and raises nothing: the records of
\* a failed call are empty and a job fails only from validation, from the
\* TypeError of a filing without date, or from save_company_data.
C16_FailedCallsReturnEmptyAndNeverRaise ==
    \A j \in Jobs :
        /\ \A response \in Responses \ {"200"} :
              /\ CompanyFilings(response, edgar[j]) = Ok(<<>>)
              /\ \A i \in 1..Len(edgar[j]) :
                    FilingContent(response, edgar[j][i].doc) = Ok(EmptyContent)
              /\ CompanyNews(TRUE, response, newsapi[j], companies[j].name) = Ok(<<>>)
              /\ CompanyReviews(response, glassdoor[j], companies[j].name) = Ok(<<>>)
        /\ failedCalls[j]["filings"] > 0 => filings[j] = <<>>
        /\ (requested[j]["content"] > 0 /\ failedCalls[j]["content"] = requested[j]["content"])
              => fetched[j].financial_metrics = <<>>
        /\ failedCalls[j]["news"] > 0 => fetched[j].news_articles = <<>>
        /\ failedCalls[j]["reviews"] > 0 => fetched[j].employee_reviews = <<>>
        /\ jobPc[j] = "failed"
              => results[j].exc \in {"ValidationError", "TypeError", "PostgresError"}

\* A job is Done although a filing content request, its news request and its
\* reviews request all failed.
C16_Witness ==
    \E j \in Jobs :
        /\ jobPc[j] = "done"
        /\ failedCalls[j]["content"] > 0
        /\ failedCalls[j]["news"] > 0 /\ newsapi[j] # <<>>
        /\ failedCalls[j]["reviews"] > 0 /\ glassdoor[j] # <<>>

\* A candidate whose own fields meet the constraints of its record: an
\* article with a title and an http(s) URL, a review with a rating in [1, 5].
\* (A review element without text is no candidate.)
ArticleCandidateOk(c) == Len(c.title) >= 1 /\ Scheme(c.url) \in {"http", "https"}
ReviewCandidateOk(c) == c.review_text # "" /\ c.rating >= 1 /\ c.rating <= 5

ArticleKeys(q) == [i \in 1..Len(q) |-> <<q[i].title, q[i].url>>]
ReviewKeys(q) == [i \in 1..Len(q) |-> <<q[i].rating, q[i].review_text>>]

\* The one request of the adapter was answered with HTTP 200.
Answered(j, adapter) == requested[j][adapter] = 1 /\ failedCalls[j][adapter] = 0

\* The articles of an answered news request are the valid candidates, in order.
ArticlesAreValidCandidates ==
    \A j \in Jobs :
        Answered(j, "news")
            => ArticleKeys(fetched[j].news_articles)
                  = ArticleKeys(SelectSeq(newsapi[j], ArticleCandidateOk))

\* C17: of the candidates of one fetch exactly those that violate a field
\* constraint are dropped: the articles, and the reviews, a job got from an
\* answered request are the valid candidates in their original order.
C17_ValidSiblingsAreKept ==
    /\ ArticlesAreValidCandidates
    /\ \A j \in Jobs :
          Answered(j, "reviews")
              => ReviewKeys(fetched[j].employee_reviews)
                    = ReviewKeys(SelectSeq(glassdoor[j], ReviewCandidateOk))

\* C18: without the API key the news adapter sends no request and returns []
\* whatever the service would answer; the filings adapter has run before it,
\* the reviews adapter runs after it, the job fails only if save_company_data
\* does, and a Done job has its aggregate in the store.
C18_MissingKeySkipsOnlyTheNewsAdapter ==
    ~api_key =>
        \A j \in Jobs :
            /\ requested[j]["news"] = 0
            /\ \A response \in Responses :
                  CompanyNews(api_key, response, newsapi[j], companies[j].name) = Ok(<<>>)
            /\ "news" \in invoked[j] =>
                  /\ fetched[j].news_articles = <<>>
                  /\ requested[j]["filings"] = 1
                  /\ jobPc[j] \in {"reviews", "save", "done", "failed", "cancelled"}
                  /\ jobPc[j] \in {"save", "done", "failed"} => requested[j]["reviews"] = 1
                  /\ jobPc[j] = "failed" => saveError[j]
                  /\ jobPc[j] = "done" => CompanyRow(company_data[j]) \in store.companies

\* Without the key a job is Done: the news API held an article for it, its
\* filings gave a metric and its reviews request was answered.
C18_Witness ==
    /\ ~api_key
    /\ \E j \in Jobs :
          /\ jobPc[j] = "done"
          /\ newsapi[j] # <<>>
          /\ "news" \in invoked[j]
          /\ fetched[j].financial_metrics # <<>>
          /\ Answered(j, "reviews")
          /\ store.financial_metrics # {}

RECURSIVE TotalCalls(_, _)
\* The calls counted in a per-job history, over jobs i..Len.
TotalCalls(history, i) ==
    IF i > Len(history) THEN 0
    ELSE history[i]["filings"] + history[i]["content"] + history[i]["news"]
            + history[i]["reviews"] + TotalCalls(history, i + 1)

\* The records the store holds.
PersistedRecords ==
    Cardinality(store.financial_metrics) + Cardinality(store.news_articles)
        + Len(store.employee_reviews)

\* C19: after the run the counters of the MonitoringSystem equal what
\* happened: the requests sent, the requests that failed, and the records
\* persisted.
C19_CountersMatchTheRun ==
    schedPc = "returned" =>
        /\ metrics.total_requests = TotalCalls(requested, 1)
        /\ metrics.failed_requests = TotalCalls(failedCalls, 1)
        /\ metrics.data_points_collected = PersistedRecords

(***************************************************************************)
(* Properties of save_company_data (under SpecDB)                          *)
(***************************************************************************)

\* The rows after the saves of the aggregates cds committed one after another.
RECURSIVE SavedAll(_, _)
SavedAll(st, cds) ==
    IF cds = <<>> THEN st ELSE SavedAll(ApplySave(st, Head(cds)), Tail(cds))

CommittedSince(c) == SubSeq(committed, tx[c].seen + 1, Len(committed))

\* C9: the store only ever holds whole saves: it is what the committed saves
\* leave, applied one after another, whatever the other connections have
\* executed so far; and while a save is under way or after it has failed the
\* four tables are as they were at its call (plus the saves that others
\* committed since).
C9_SaveIsAllOrNothing ==
    /\ store = SavedAll(InitStore, committed)
    /\ \A c \in Conns :
          tx[c].pc \in {"open", "failed"} =>
              store = SavedAll(tx[c].before, CommittedSince(c))

\* A save failed after its entity upsert and a metric upsert had executed,
\* while another connection was in the middle of its own save, and the four
\* tables are as before the failed call.
C9_Witness ==
    \E c, d \in Conns :
        /\ tx[c].pc = "failed" /\ tx[c].done >= 2
        /\ tx[c].data.financial_metrics # <<>>
        /\ tx[d].pc = "open" /\ tx[d].done >= 1
        /\ tx[c].data.cik # tx[d].data.cik
        /\ CommittedSince(c) = <<>>
        /\ store = tx[c].before

\* The FinancialMetricRecords saved so far, in the order they were saved.
RECURSIVE MetricLog(_)
MetricLog(cds) ==
    IF cds = <<>> THEN <<>>
    ELSE Head(cds).financial_metrics \o MetricLog(Tail(cds))

\* Position i of the log holds the most recently saved record of its key.
MostRecent(log, i) == \A j \in (i + 1)..Len(log) : ~SameMetricKey(log[j], log[i])

\* Position i holds a record saved after another of the same key with
\* different monetary values.
SavedOverDifferent(log, i) ==
    \E j \in 1..(i - 1) :
        /\ SameMetricKey(log[j], log[i])
        /\ <<log[j].revenue, log[j].net_income>> # <<log[i].revenue, log[i].net_income>>

\* A stored amount (hundredths) equals a record's amount (thousandths).
SameAmount(stored, v) ==
    IF stored = NoAmount \/ v = NoAmount THEN stored = v
    ELSE stored[1] * Scale = v[1]

RowsOfKey(m) == {r \in store.financial_metrics : SameMetricKey(r, m)}

\* C10 as stated: when two records of one key were saved one after the other
\* with different monetary values, the store holds exactly one row of the key
\* and its revenue and net income equal those of the later record.
C10_StoredAmountsEqualLastSaved ==
    LET log == MetricLog(committed)
    IN \A i \in 1..Len(log) :
          (MostRecent(log, i) /\ SavedOverDifferent(log, i)) =>
              /\ Cardinality(RowsOfKey(log[i])) = 1
              /\ \A r \in RowsOfKey(log[i]) :
                    /\ SameAmount(r.revenue, log[i].revenue)
                    /\ SameAmount(r.net_income, log[i].net_income)

\* C10 as amended: the store holds exactly one row for every saved key, and
\* its revenue and net income are those of the most recently saved record of
\* the key rounded to two decimal places, the scale of the DECIMAL(15,2)
\* columns; upserting a record again leaves the table as after the first time.
C10_StoredAmountsAreLastSavedRounded ==
    LET log == MetricLog(committed)
    IN /\ \A i \in 1..Len(log) :
             MostRecent(log, i) => RowsOfKey(log[i]) = {MetricRow(log[i])}
       /\ \A r \in store.financial_metrics :
             \E i \in 1..Len(log) : SameMetricKey(r, log[i])
       /\ \A cd \in Aggregates : \A k \in 1..Len(cd.financial_metrics) :
             LET m == cd.financial_metrics[k]
             IN UpsertMetric(UpsertMetric(store, m), m) = UpsertMetric(store, m)

\* A record with a revenue of 1.004 was saved over one of the same key with
\* a different revenue, and the single row of the key holds 1.00.
C10_Witness ==
    LET log == MetricLog(committed)
    IN \E i \in 1..Len(log) :
          /\ MostRecent(log, i) /\ SavedOverDifferent(log, i)
          /\ log[i].revenue = Some(1004)
          /\ RowsOfKey(log[i]) = {MetricRow(log[i])}
          /\ \A r \in RowsOfKey(log[i]) : r.revenue = Some(100)

\* The NewsArticleRecords saved so far, in the order they were saved.
RECURSIVE ArticleLog(_)
ArticleLog(cds) ==
    IF cds = <<>> THEN <<>>
    ELSE Head(cds).news_articles \o ArticleLog(Tail(cds))

\* Position i of the log holds the first saved record of its URL.
FirstOfUrl(log, i) == \A j \in 1..(i - 1) : log[j].url # log[i].url

\* The URL of position i was saved again later.
SavedAgain(log, i) == \E j \in (i + 1)..Len(log) : log[j].url = log[i].url

RowsOfUrl(url) == {r \in store.news_articles : r.url = url}

\* C11 as stated: when two records of one URL were saved one after the
\* other, the store holds exactly one row of the URL and all its fields are
\* those of the first saved record.
C11_StoredArticleEqualsFirstSaved ==
    LET log == ArticleLog(committed)
    IN \A i \in 1..Len(log) :
          (FirstOfUrl(log, i) /\ SavedAgain(log, i)) =>
              /\ Cardinality(RowsOfUrl(log[i].url)) = 1
              /\ \A r \in RowsOfUrl(log[i].url) :
                    /\ r.company_name = log[i].company_name
                    /\ r.title = log[i].title
                    /\ SameAmount(r.sentiment_score, log[i].sentiment_score)

\* C11 as amended: the store holds exactly one row for every saved URL, and
\* its fields are those of the first saved record of the URL, the sentiment
\* score rounded to two decimal places (the column is DECIMAL(3,2)); a later
\* insert of the URL, in the same or another save, violates no constraint,
\* and the save that holds it commits.
C11_StoredArticleIsFirstSavedRounded ==
    LET log == ArticleLog(committed)
    IN /\ \A i \in 1..Len(log) :
             FirstOfUrl(log, i) => RowsOfUrl(log[i].url) = {ArticleRow(log[i])}
       /\ \A r \in store.news_articles : \E i \in 1..Len(log) : log[i].url = r.url
       /\ \A cd \in Aggregates : \A k \in 1..Len(cd.news_articles) :
             ~ViolatesConstraint(store, [op |-> "article", arg |-> cd.news_articles[k]])

\* An article was saved after another of its URL that differs from it, the
\* save holding it committed, and the single row of the URL is the first
\* one with its sentiment of 0.333 stored as 0.33.
C11_Witness ==
    LET log == ArticleLog(committed)
    IN \E i \in 1..Len(log) : \E j \in (i + 1)..Len(log) :
          /\ FirstOfUrl(log, i)
          /\ log[j].url = log[i].url /\ log[j] # log[i]
          /\ log[i].sentiment_score = Some(333)
          /\ RowsOfUrl(log[i].url) = {ArticleRow(log[i])}
          /\ \A r \in RowsOfUrl(log[i].url) : r.sentiment_score = Some(33)

\* The EmployeeReviewRecords saved so far, in the order they were saved.
RECURSIVE ReviewLog(_)
ReviewLog(cds) ==
    IF cds = <<>> THEN <<>>
    ELSE Head(cds).employee_reviews \o ReviewLog(Tail(cds))

\* How many elements of the list q equal x.
Count(q, x) == Cardinality({i \in 1..Len(q) : q[i] = x})

\* C12: employee_reviews holds one row for every review of every committed
\* save, equal ones included: after k saves of an aggregate with n reviews it
\* has grown by k*n rows.
C12_EveryReviewIsANewRow ==
    LET log == ReviewLog(committed)
    IN /\ Len(store.employee_reviews) = Len(log)
       /\ \A i \in 1..Len(log) :
             Count(store.employee_reviews, log[i]) = Count(log, log[i])

\* One aggregate with two reviews was saved twice and the table holds four rows.
C12_Witness ==
    /\ Len(committed) = 2
    /\ committed[1] = committed[2]
    /\ Len(committed[1].employee_reviews) = 2
    /\ Len(store.employee_reviews) = 4

\* Position i holds the most recent committed save of its entity key.
MostRecentSave(i) ==
    \A j \in (i + 1)..Len(committed) : committed[j].cik # committed[i].cik

RowsOfCik(cik) == {r \in store.companies : r.cik = cik}

\* C13: companies holds at most one row per entity key, a row for every
\* saved key and no other, and the row's name and ticker (industry and
\* sector alike) are those of the most recent committed save of the key.
C13_CompanyRowIsLastSaved ==
    /\ \A r \in store.companies : Cardinality(RowsOfCik(r.cik)) = 1
    /\ \A r \in store.companies : \E i \in 1..Len(committed) : committed[i].cik = r.cik
    /\ \A i \in 1..Len(committed) :
          MostRecentSave(i) => RowsOfCik(committed[i].cik) = {CompanyRow(committed[i])}

\* An entity was saved again under another name and ticker, and its row
\* holds the new ones.
C13_Witness ==
    \E i \in 1..Len(committed) : \E j \in (i + 1)..Len(committed) :
        /\ committed[i].cik = committed[j].cik
        /\ committed[i].company_name # committed[j].company_name
        /\ committed[i].ticker # committed[j].ticker
        /\ MostRecentSave(j)
        /\ RowsOfCik(committed[j].cik) = {CompanyRow(committed[j])}

\* C20: a call of create_tables never fails, leaves every table and index of
\* the script in place and every stored row untouched; called when they all
\* exist, it changes nothing.
C20_CreateTablesIsIdempotent ==
    lastCreate.called =>
        /\ ~lastCreate.error
        /\ schema = FullSchema
        /\ store = lastCreate.store
        /\ lastCreate.schema # {} => schema = lastCreate.schema

\* create_tables was called again on a database that had its tables and
\* rows in them.
C20_Witness ==
    /\ lastCreate.called
    /\ lastCreate.schema = FullSchema
    /\ lastCreate.store.companies # {}
    /\ lastCreate.store.employee_reviews # <<>>
    /\ store = lastCreate.store

(***************************************************************************)
(* Properties of the records handed to save_company_data (under Spec)      *)
(***************************************************************************)

\* C30: every FinancialMetrics of an aggregate that a job hands to
\* save_company_data has a filing date, a period end date and a key of
\* exactly 10 numeric characters that is the key of the job's entity,
\* whatever key the caller supplied.
C30_SavedMetricsAreWellFormed ==
    \A j \in Jobs :
        Saves(trace[j]) # {} =>
            \A i \in 1..Len(company_data[j].financial_metrics) :
                LET metric == company_data[j].financial_metrics[i]
                IN /\ metric.filing_date \in Dates
                   /\ metric.period_end_date \in Dates
                   /\ metric.company_cik = companies[j].cik
                   /\ IsTenDigits(metric.company_cik)

(***************************************************************************)
(* Properties of the aggregates of concurrent jobs (under SpecOwn)         *)
(***************************************************************************)

\* Every record of the lists is one that job o fetched: a FinancialMetrics
\* with o's key, an article or a review with o's name.
OwnRecordsOnly(o, lists) ==
    \A f \in DOMAIN lists : \A i \in 1..Len(lists[f]) :
        LET record == lists[f][i]
        IN /\ record.kind = f
           /\ f = "financial_metrics" => record.company_cik = GoodEntity(o).cik
           /\ f # "financial_metrics" => record.company_name = GoodEntity(o).name

\* C31: a job owns its aggregate exclusively: with jobs running side by
\* side, the aggregate of entity E, while it is built and when it is saved
\* and returned, holds only records fetched by E's job (metrics with E's
\* key, articles and reviews with E's name), never one another job added,
\* and no two jobs refer to the same list.
C31_JobsOwnTheirAggregates ==
    \A o \in Owners :
        /\ aggregate[o] # NoLists =>
              /\ OwnRecordsOnly(o, Contents(heap, aggregate[o]))
              /\ \A q \in Owners \ {o} : aggregate[q] # NoLists =>
                    \A f, g \in DOMAIN aggregate[o] : aggregate[o][f] # aggregate[q][g]
        /\ ownPc[o] = "done" =>
              /\ OwnRecordsOnly(o, handed[o])
              /\ handed[o] = Contents(heap, aggregate[o])

\* Every job is done and each handed over one record of each kind.
C31_Witness ==
    \A o \in Owners :
        /\ ownPc[o] = "done"
        /\ \A f \in DOMAIN handed[o] : Len(handed[o][f]) = 1


(***************************************************************************)
(* Progress of scrape_multiple_companies (under SpecFair)                  *)
(***************************************************************************)

\* The process was ended by sys.exit(0) in the signal handler.
Exited == schedPc = "exited"

\* Every job of the batch has started and has reached a terminal state.
AllJobsFinished == \A j \in Jobs : jobPc[j] # "queued" /\ IsTerminal(jobPc[j])

\* C32: unless a signal ends the process, every job of the batch leaves the
\* queue and reaches a terminal state, whatever the other jobs do, and
\* scrape_multiple_companies returns.
C32_JobsFinishAndSchedulerReturns ==
    (schedPc = "gather") ~> ((AllJobsFinished /\ schedPc = "returned") \/ Exited)

\* The scheduler has returned from a batch larger than the semaphore in
\* which the three jobs that held the slots first all failed, one of them in
\* save_company_data, and the job queued behind them completed.
C32_Witness ==
    /\ schedPc = "returned"
    /\ Len(companies) > SemaphoreValue
    /\ \A j \in 1..SemaphoreValue : jobPc[j] = "failed"
    /\ \E j \in 1..SemaphoreValue : saveError[j]
    /\ jobPc[Len(companies)] = "done"


(***************************************************************************)
(* Properties of the limiters of different services (under SpecLim)        *)
(***************************************************************************)

\* A task sleeps no longer than the state of the limiter it called asks for:
\* a limiter whose own interval has passed lets the call through, whatever
\* was just sent to the other services.
DelayedByOwnLimiterOnly ==
    \A t \in DOMAIN limTask :
        limTask[t].pc = "sleeping"
            => limTask[t].wakeAt <= LastRequestTime(limTask[t].service) + LimInterval(limTask[t].service)

\* last_request_time of every service but the given one stays as it is.
OthersKept(service) ==
    \A other \in ServiceNames \ {service} : LastRequestTime(other)' = LastRequestTime(other)

\* Every step of a wait_if_needed call, the part before the sleep and the
\* part after it, leaves last_request_time of every other service as it was.
OtherLimitersUnchanged ==
    /\ \A t \in LimTasks, service \in ServiceNames : LimiterCall(t, service) => OthersKept(service)
    /\ \A t \in LimTasks : LimiterWake(t) => OthersKept(limTask[t].service)

\* C33: the limiters of different services are independent: a call of
\* wait_if_needed on one changes the last_request_time of no other, and the
\* time a call sleeps is set by the limiter it was made on alone.
C33_LimitersAreIndependent ==
    []DelayedByOwnLimiterOnly /\ [][OtherLimitersUnchanged]_vars

\* Some ticks after the start a request to SEC EDGAR has just been let
\* through, in the tick in which a request passed the Glassdoor limiter and
\* made it put another task to sleep.
C33_Witness ==
    /\ limTask # <<>>
    /\ limNow > Epoch
    /\ LastRequestTime("glassdoor") = limNow
    /\ LastRequestTime("sec_edgar") = limNow
    /\ \E t \in LimTasks : limTask[t].pc = "sleeping" /\ limTask[t].service = "glassdoor"
    /\ \E t \in LimTasks : limTask[t].pc = "idle"


(***************************************************************************)
(* Properties of _parse_reviews_page (under SpecRev)                       *)
(***************************************************************************)

RECURSIVE KeptReviews(_)
\* The reviews of the elements that have a review text and a rating in
\* [1, 5], parsed from the element or 3.0, in the order of the page.
KeptReviews(elements) ==
    IF elements = <<>> THEN <<>>
    ELSE (IF ReviewTextOf(Head(elements)) # <<>> /\ RatingInRange(RatingOf(Head(elements)))
          THEN <<[rating |-> RatingOf(Head(elements)), review_text |-> ReviewTextOf(Head(elements))]>>
          ELSE <<>>)
         \o KeptReviews(Tail(elements))

\* The rating and the text of every review of a result.
RatingsAndTexts(reviews) ==
    [i \in 1..Len(reviews) |-> [rating |-> reviews[i].rating, review_text |-> reviews[i].review_text]]

\* The call never raises.
ReviewsParserNeverRaises == revPc = "returned" => revResult.exc = None

FiguresOf(metric) == [revenue |-> metric.revenue, net_income |-> metric.net_income]

\* The patterns, by their place in date_patterns, whose leftmost match in
\* the text is a date.
PatternsWithDate(mentions) ==
    {i \in 1..Len(DatePatterns) :
        \E k \in 1..Len(mentions) :
            /\ mentions[k].pattern = DatePatterns[i]
            /\ \A m \in 1..(k - 1) : mentions[m].pattern # DatePatterns[i]
            /\ ParseDate(mentions[k].date_str) # None}

\* The date the leftmost match of pattern i stands for.
DateOfPattern(i, mentions) ==
    ParseDate(mentions[CHOOSE k \in 1..Len(mentions) :
                           /\ mentions[k].pattern = DatePatterns[i]
                           /\ \A m \in 1..(k - 1) : mentions[m].pattern # DatePatterns[i]].date_str)

\* C35: extract_financial_metrics runs the XBRL strategy first and the HTML
\* table strategy only when the first returned nothing; a record carries the
\* figures of the first strategy that returned something and of that one
\* alone; there is no record when both returned nothing; and the period-end
\* date of a record is the date of the first pattern that matches a date,
\* the filing date when none does.
C35_FirstStrategyWinsAndPeriodFallsBack ==
    finPc = "returned" =>
        /\ Len(finMetrics) <= 1
        /\ Head(finStrategies) = "_extract_xbrl_data"
        /\ "_extract_html_financial_data" \in {finStrategies[i] : i \in 1..Len(finStrategies)}
              <=> IsEmptyDict(finDoc.xbrl)
        /\ IsEmptyDict(finDoc.xbrl) /\ IsEmptyDict(finDoc.html) => finMetrics = <<>>
        /\ \A i \in 1..Len(finMetrics) :
              /\ FiguresOf(finMetrics[i]) =
                    (IF ~IsEmptyDict(finDoc.xbrl) THEN finDoc.xbrl ELSE finDoc.html)
              /\ finMetrics[i].filing_date = finFilingDate
              /\ LET dated == PatternsWithDate(finDoc.mentions)
                 IN finMetrics[i].period_end_date =
                       (IF dated = {} THEN finFilingDate
                        ELSE DateOfPattern(CHOOSE p \in dated : \A q \in dated : p <= q,
                                           finDoc.mentions))

\* Both strategies found figures and the record has those of the first
\* alone, a figure of the second missing; the text has an ISO date before a
\* "period ended" date and the record has the latter.
C35_Witness ==
    /\ finPc = "returned"
    /\ Len(finMetrics) = 1
    /\ finDoc.xbrl.net_income = NoAmount /\ finDoc.html.net_income # NoAmount
    /\ finMetrics[1].net_income = NoAmount
    /\ Len(finDoc.mentions) = 2
    /\ finDoc.mentions[1].pattern = "iso" /\ ParseDate(finDoc.mentions[1].date_str) # None
    /\ finDoc.mentions[2].pattern = "period ended"
    /\ finMetrics[1].period_end_date = "2023-12-31"

\* The only match in the text is no date, and the record has the filing date
\* as its period end; the figures are those of the HTML tables.
C35_WitnessFallback ==
    /\ finPc = "returned"
    /\ Len(finMetrics) = 1
    /\ IsEmptyDict(finDoc.xbrl)
    /\ Len(finDoc.mentions) = 1 /\ ParseDate(finDoc.mentions[1].date_str) = None
    /\ finMetrics[1].period_end_date = finFilingDate


(***************************************************************************)
(* The order of the list scrape_multiple_companies returns (under Spec)    *)
(***************************************************************************)

\* The jobs that returned their CompanyData.
SucceededJobs == {j \in Jobs : jobPc[j] = "done"}

\* The place of job j among the jobs that succeeded, in submission order.
PlaceOf(j) == Cardinality({i \in SucceededJobs : i <= j})

\* C36: the returned list is the input list restricted to the entities whose
\* jobs succeeded, in the order of the input, in whatever order the jobs
\* completed; every record has the name and the key of its entity.
C36_ResultsInSubmissionOrder ==
    schedPc = "returned" =>
        /\ Len(successful_results) = Cardinality(SucceededJobs)
        /\ \A j \in SucceededJobs :
              /\ successful_results[PlaceOf(j)].company_name = companies[j].name
              /\ successful_results[PlaceOf(j)].cik = companies[j].cik

\* A full batch has returned whose last job failed and in which a job
\* completed while a job submitted before it was still running: all the
\* earlier jobs are in the list, in the order of the input.
C36_Witness ==
    /\ schedPc = "returned"
    /\ Len(companies) = NumCompanies
    /\ FailedJobs = {NumCompanies}
    /\ outOfOrder
    /\ Len(successful_results) = NumCompanies - 1


(***************************************************************************)
(* Referential integrity of financial_metrics (under SpecDB)               *)
(***************************************************************************)

\* Every metric row of the rows st refers to a key that has a company row.
MetricsHaveCompanies(st) == \A r \in st.financial_metrics : ForeignKeyHolds(st, r)

\* The statements connection c has executed begin with the entity upsert.
CompanyWrittenFirst(c) ==
    tx[c].done >= 1 =>
        /\ Statements(tx[c].data)[1].op = "company"
        /\ \A k \in 2..Len(Statements(tx[c].data)) : Statements(tx[c].data)[k].op # "company"

\* C37: whatever saves have committed, failed or are under way, every row of
\* financial_metrics has a companies row for its key, in the committed rows
\* and in what every open transaction sees; a save writes its entity row
\* before its metric rows; and a save that failed has left financial_metrics
\* as it found it (plus what others committed since).
C37_MetricRowsHaveCompanyRows ==
    /\ MetricsHaveCompanies(store)
    /\ \A c \in Conns :
          tx[c].pc \in {"open", "failed"} =>
              /\ CompanyWrittenFirst(c)
              /\ MetricsHaveCompanies(View(c))
    /\ \A c \in Conns :
          tx[c].pc = "failed" =>
              store.financial_metrics
                  = SavedAll(tx[c].before, CommittedSince(c)).financial_metrics

\* A save has failed at a metric whose key has no companies row, after its
\* entity upsert, while financial_metrics holds the row of a committed save.
C37_Witness ==
    \E c \in Conns :
        /\ tx[c].pc = "failed" /\ tx[c].done = 1
        /\ tx[c].data = ForeignMetricAggregate
        /\ ~ForeignKeyHolds(View(c), tx[c].data.financial_metrics[1])
        /\ store.financial_metrics # {}
        /\ Len(committed) = 1


(***************************************************************************)
(* Uniqueness of article URLs across entities (under SpecDB)               *)
(***************************************************************************)

\* The committed saves that hold an article of the URL, in commit order.
SavesOfUrl(url) ==
    {i \in 1..Len(committed) :
        \E k \in 1..Len(committed[i].news_articles) : committed[i].news_articles[k].url = url}

\* The URLs of the articles of the committed saves.
SavedUrls == {u \in {Urls[i] : i \in 1..Len(Urls)} : SavesOfUrl(u) # {}}

\* news_articles holds one row for every saved URL, attributed to the
\* entity whose save stored the URL first.
OneRowPerUrlOfFirstEntity ==
    \A u \in SavedUrls :
        LET first == CHOOSE i \in SavesOfUrl(u) : \A k \in SavesOfUrl(u) : i <= k
        IN /\ Cardinality(RowsOfUrl(u)) = 1
           /\ \A r \in RowsOfUrl(u) : r.company_name = committed[first].company_name

\* The next statement of connection c inserts an article whose URL is stored
\* for another entity.
InsertsUrlOfAnother(c) ==
    /\ tx[c].pc = "open"
    /\ tx[c].done < Len(Statements(tx[c].data))
    /\ LET stmt == Statements(tx[c].data)[tx[c].done + 1]
       IN /\ stmt.op = "article"
          /\ \E r \in RowsOfUrl(stmt.arg.url) : r.company_name # stmt.arg.company_name

\* Such an insert is not rejected: once no other open transaction holds the
\* URL, the statement executes.
InsertOfStoredUrlGoesThrough ==
    \A c \in Conns :
        (InsertsUrlOfAnother(c) /\ \A d \in Conns \ {c} : tx[d].pc # "open")
            => ENABLED ExecuteStatement(c)

\* No step changes or removes a stored article row.
ArticleRowsStay == \A r \in store.news_articles : r \in store'.news_articles

\* C38: the URL of an article is unique over all entities: the save of an
\* entity whose article has a URL already stored for another entity is not
\* rejected, it leaves the stored row as it is, attributed to the entity
\* that stored it first, and adds no second row for the URL.
C38_UrlIsUniqueAcrossEntities ==
    [](OneRowPerUrlOfFirstEntity /\ InsertOfStoredUrlGoesThrough) /\ [][ArticleRowsStay]_vars

\* Two entities have saved an article of the same URL one after the other,
\* both saves committed, and the single row of the URL has the name of the
\* first.
C38_Witness ==
    /\ Len(committed) = 2
    /\ committed[1].company_name = GoodEntity(1).name
    /\ committed[2].company_name = GoodEntity(2).name
    /\ \E a \in 1..Len(committed[1].news_articles), b \in 1..Len(committed[2].news_articles) :
          committed[1].news_articles[a].url = committed[2].news_articles[b].url
    /\ \A r \in store.news_articles : r.company_name = GoodEntity(1).name
    /\ Cardinality(store.news_articles) = 1


(***************************************************************************)
(* Properties of run_continuous_scraper (under SpecLoop)                   *)
(***************************************************************************)

\* The signal handler has set the flag.
FlagSet == flagSetAt # NoSignal

\* Every invocation but the last has ended, and the last is the one in
\* progress exactly while the loop is in it.
RunsFollowOneAnother ==
    \A i \in 1..Len(runs) :
        (runs[i].outcome = "running") <=> (i = Len(runs) /\ loopPc = "run")

\* The loop ends only once the flag is set: a run that raised did not end it.
LoopEndsOnFlagOnly == loopPc = "exited" => FlagSet

\* The run in progress can still return or raise after the flag is set.
RunInProgressCanFinish == loopPc = "run" => (ENABLED RunReturns /\ ENABLED RunRaises)

\* The signal handler sets the flag and leaves the loop and the run in
\* progress where they are.
HandlerOnlySetsFlag == (loopRunning /\ ~loopRunning') => (loopPc' = loopPc /\ runs' = runs)

\* While the flag is unset, the loop goes from a run that raised to the
\* one-hour wait, from a wait to its test, and from its test to the next run.
NextRunFollowsWhileFlagUnset ==
    (loopRunning /\ loopRunning' /\ loopPc' # loopPc) =>
        /\ loopPc = "except" => loopPc' = "retry"
        /\ loopPc = "after" => loopPc' = "sleep"
        /\ loopPc \in {"sleep", "retry"} => loopPc' = "test"
        /\ loopPc = "test" => loopPc' = "start"
        /\ loopPc = "start" => loopPc' = "run"

\* C39 as stated: no run_scraper invocation starts once the flag is set, the
\* run in progress when the flag is set finishes, and a run that raises does
\* not end the loop: while the flag is unset the next run follows the wait.
C39_NoRunStartsOnceFlagIsSet ==
    /\ \A i \in 1..Len(runs) : ~runs[i].flagAtStart
    /\ RunsFollowOneAnother
    /\ LoopEndsOnFlagOnly
    /\ RunInProgressCanFinish

\* The invocations that may still start after the flag was set: none, or
\* one if the test of the loop had passed and its call had not been made.
StartsAllowedAfter == IF flagSetAt.pc = "start" THEN 1 ELSE 0

\* C39 as amended: once the flag is set the loop makes no further test that
\* passes, so that no invocation starts except the one whose test had
\* already passed when the signal arrived; the run in progress finishes; a
\* run that raises does not end the loop, and while the flag is unset the
\* next run follows the wait.
C39_NoLoopTestPassesOnceFlagIsSet ==
    /\ [](/\ FlagSet => Len(runs) <= flagSetAt.runs + StartsAllowedAfter
          /\ \A i \in 1..Len(runs) :
                runs[i].flagAtStart => (flagSetAt.pc = "start" /\ i = flagSetAt.runs + 1)
          /\ RunsFollowOneAnother
          /\ LoopEndsOnFlagOnly
          /\ RunInProgressCanFinish)
    /\ [][HandlerOnlySetsFlag /\ NextRunFollowsWhileFlagUnset]_vars

\* A run raised, the loop waited and started the next run, the signal
\* arrived during that run, the run returned and the loop has ended without
\* starting another.
C39_Witness ==
    /\ loopPc = "exited"
    /\ Len(runs) = 2
    /\ runs[1].outcome = "raised" /\ runs[2].outcome = "returned"
    /\ FlagSet
    /\ flagSetAt.pc = "run" /\ flagSetAt.runs = 2

=============================================================================
